---- MODULE Spec2Model ----
(***************************************************************************)
(* Automated trade lifecycle of the counter trading bot: the token         *)
(* scanner's cooldown controller (server/services/token-scanner.ts), the   *)
(* auto trader's candidate evaluation, trade queue, manual buy             *)
(* confirmation and position monitor (server/services/auto-trader.ts),     *)
(* the in-memory store (server/storage.ts) and the part of the trading     *)
(* service they call (server/services/trading.ts).                         *)
(*                                                                         *)
(* Granularity.  The server is one Node.js event loop, so the code between *)
(* two awaits is atomic.  Every await on a network call (RPC, HTTP) is a   *)
(* step boundary of the model, and so is every await that follows a write  *)
(* to the store (position, event, blacklist).  A run of store reads with   *)
(* no write in between is taken in one step.  Timers (setTimeout,          *)
(* setInterval) fire as separate steps.                                    *)
(*                                                                         *)
(* Specifications.  All start from the state after construction and       *)
(* share the variables and the actions; each lets a different part of the  *)
(* environment act.                                                        *)
(*   Spec         scanner switch, discovery polls, candidate evaluation    *)
(*                and the trade queue of the self-signing wallet           *)
(*   SpecManual   manual buy confirmations, pending trades, filter and     *)
(*                settings changes, forceStopAll                           *)
(*   SpecMonitor  the trade queue together with the monitoring cycle and   *)
(*                its sells                                                *)
(*   SpecExit     the monitoring cycle over manually bought positions      *)
(*   SpecSubmit   one signed submission, through the relays or directly,   *)
(*                and its confirmation                                     *)
(*   SpecOrders   signed submissions against the same order                *)
(*   SpecClose    positions stopped, sold by hand, sold instantly and      *)
(*                liquidated in batches                                    *)
(*   SpecBatch    batch liquidation of the tokens in a wallet              *)
(*   SpecPace     the trade queue while the clock runs freely              *)
(*   SpecDrain    the same, with a drain loop that keeps taking its steps  *)
(*   SpecBuys     the trade queue together with manual buy confirmations   *)
(*   SpecCooldown the switch and the trade queue while the clock runs to   *)
(*                the deadline of the cooldown timer                       *)
(*   SpecTrade    executeTrade: quote, swap build and bonding curve        *)
(*   SpecHoldings one signed submission while the holdings of the wallets  *)
(*                are fetched and cached                                   *)
(*                                                                         *)
(* Not modelled.  executeBuy with a signed transaction (the route passes   *)
(* none), the catch branches of processTradeQueue and autoExecuteSell      *)
(* (executeAutoTrade catches its own errors), sellAllPositions, the orders that executeAutoTrade     *)
(* creates for the trades of the queue and of the monitor (executeTrade    *)
(* is followed step by step in SpecTrade only), the catch branch of        *)
(* executeTrade (the requests it awaits catch their own errors), and the   *)
(* transactions of the wallet tokens a batch liquidation sells.            *)
(* forceStopAll is taken in one step.                                      *)
(* stopLossMcap is computed in integer arithmetic.                         *)
(***************************************************************************)
EXTENDS Integers, Sequences, FiniteSets, TLC

(* ------------------------------------------------------------------ *)
(* Universe and bounds                                                  *)
(* ------------------------------------------------------------------ *)

\* The server-held wallet that can sign by itself, and a wallet that cannot.
TradingWallet == "tw"
Wallets == {"tw", "uw"}
Mints == {"m1", "m2"}

\* Market caps (USD) the candidate feed reports, and readings of the monitor.
CandidateMcaps == {20000}
McapReadings == {0, 10000, 59999, 60000}
\* Liquidity (USD) the candidate feed reports.
CandidateLiquidity == {1000}

\* External requests (settings, scanner switch, manual buy, force stop) issued.
MaxCalls == 4
\* Candidate notifications delivered by the discovery feed.
MaxCandidates == 3
\* Transactions handed to the chain.
MaxTx == 2
\* Monitoring cycles started.
MaxCycles == 1
\* Discovery polls in flight at the same time.
MaxFetch == 1
\* Manual buy confirmations in progress at the same time.
MaxManuals == 1
\* Candidates delivered in the scenarios of manual buys and of monitoring.
ManualCandidates == 1
MonitorCandidates == 2
\* External requests issued in the scenario of monitoring.
MonitorCalls == 3
\* Monitoring cycles started in the scenario of manually bought positions.
ExitCycles == 2
\* External requests issued in that scenario.
ExitCalls == 3
\* Orders created, and signed submissions made, in the scenario of submissions.
MaxOrders == 1
MaxSubmits == 1
\* Signed submissions made in the scenario of orders.
OrderSubmits == 2
\* External requests issued, and sell calls in progress at the same time, in
\* the scenario of closing positions; batch sizes of a liquidation of positions.
CloseCalls == 3
MaxExits == 1
CloseBatchSize == 2
\* Wallet tokens on a batch liquidation's work list, and its batch size.
MaxItems == 7
MaxBatchSize == 3
\* executeTrade calls made in the scenario of venue resolution.
MaxTrades == 3
\* Candidates delivered, external requests issued and the last clock reading
\* in the scenario of the pace of the drain loop.
PaceCandidates == 2
PaceCalls == 3
MaxClock == 2
\* Clock: it counts units of 30 s; one tick of a pending cooldown is TickSize
\* units.
TickSize == 40

\* COOLDOWN_DURATION = 20 * 60 * 1000 ms, in units of 30 s.
COOLDOWN_DURATION == 40

\* MIN_TRADE_INTERVAL = 30000 ms, in units of 30 s.
MIN_TRADE_INTERVAL == 1

Undef == -1

\* No batch liquidation has been started.
NoLiquidation ==
  [pc |-> "idle", kind |-> "-", w |-> "-", batchSize |-> 0, list |-> <<>>,
   batches |-> <<>>, batchIndex |-> 0, cur |-> <<>>, attempts |-> <<>>,
   results |-> <<>>, sold |-> 0, failed |-> 0, total |-> 0]
NoMint == "-"

VARIABLES
  \* ---- TokenScannerService
  isPaused,          \* scanner disabled
  isInCooldown,
  cooldownEndTime,
  cooldownTimeout,   \* deadline of the pending cooldown timer, Undef when none
  scanInterval,      \* the periodic scan timer is installed
  scanStarts,        \* startScanning calls suspended in their initial fetch
  fetches,           \* fetchLatestTokens calls started by the scan timer, in flight
  \* ---- MemStorage
  tokens,            \* mint -> last stored market cap (0: not stored)
  tradingSettings,   \* wallet -> settings
  tokenFilters,      \* wallet -> filter
  positions,         \* AutoTradePosition records, in creation order
  events,            \* AutoTradeEvent log: <<wallet, type, mint>> -> count
  blacklist,         \* set of <<wallet, mint>>
  \* ---- AutoTraderService
  enabledWallets,    \* tracked wallets, in insertion order
  processedTokens,   \* set of <<wallet, mint>> keys in the dedup window
  dedupTimers,       \* pending dedup timers: <<wallet, mint>> -> count
  pendingTrades,     \* <<wallet, mint>> -> trade queued for manual approval
  tradeQueue,
  isProcessingQueue,
  drain,             \* the drain loop's position and locals
  discarded,         \* history: intents dropped by the latest queue clearing
  lastTradeTime,     \* clock reading when the loop last began a buy
  evals,             \* processToken calls in progress
  manuals,           \* executeBuy / confirmBuy calls in progress
  monitors,          \* checkPositionsForSell cycles in progress
  \* ---- TradingService and the chain
  tokenCache,        \* wallet -> cached holdings
  inFlightRequests,  \* wallet -> the holdings fetch in flight, if any
  txs,               \* transactions handed to the chain, by signature
  holdings,          \* set of <<wallet, mint>> with a positive balance
  \* ---- TradingService: orders and signed submissions
  orders,            \* Order records, in creation order
  submits,           \* submitSignedTrade calls in progress
  sigStatus,         \* submission -> status of its transaction's signature
  results,           \* TradeResult returned by each finished submission
  \* ---- AutoTraderService: manual exits and batch liquidation
  exits,             \* executeSell / confirmSell / executeInstantSell calls in progress
  liquidation,       \* the batch liquidation in progress, and its result
  \* ---- TradingService: executeTrade
  trades,            \* executeTrade calls, in the order they began
  \* ---- environment
  now,
  calls, candidates, cycles

scannerVars == <<isPaused, isInCooldown, cooldownEndTime, cooldownTimeout,
                 scanInterval, scanStarts, fetches>>
storeVars == <<tokens, tradingSettings, tokenFilters, positions, events, blacklist>>
traderVars == <<enabledWallets, processedTokens, dedupTimers, pendingTrades,
                tradeQueue, isProcessingQueue, drain, discarded, lastTradeTime, evals, manuals,
                monitors>>
chainVars == <<tokenCache, inFlightRequests, txs, holdings>>
envVars == <<now, calls, candidates, cycles>>
svcVars == <<orders, submits, sigStatus, results>>
exitVars == <<exits, liquidation>>
vars == <<scannerVars, storeVars, traderVars, chainVars, envVars, svcVars, exitVars,
          trades>>

(* ------------------------------------------------------------------ *)
(* Helpers                                                              *)
(* ------------------------------------------------------------------ *)

Range(s) == {s[i] : i \in DOMAIN s}

\* {...current, ...update} of setTradingSettings / setTokenFilters
Merge(cur, upd) ==
  [k \in DOMAIN cur |-> IF k \in DOMAIN upd THEN upd[k] ELSE cur[k]]

\* A log or bag with one more occurrence of e
BagAdd(b, e) ==
  IF e \in DOMAIN b THEN [b EXCEPT ![e] = @ + 1] ELSE b @@ (e :> 1)

BagCount(b, e) == IF e \in DOMAIN b THEN b[e] ELSE 0

BagRemove(b, e) ==
  IF b[e] = 1 THEN [x \in DOMAIN b \ {e} |-> b[x]] ELSE [b EXCEPT ![e] = @ - 1]

BagSize(b) ==
  LET RECURSIVE Sum(_)
      Sum(S) == IF S = {} THEN 0
                ELSE LET x == CHOOSE y \in S : TRUE IN b[x] + Sum(S \ {x})
  IN Sum(DOMAIN b)

(* ------------------------------------------------------------------ *)
(* TokenScannerService: enable / disable, scanning, cooldown           *)
(* ------------------------------------------------------------------ *)

isEnabled == ~isPaused

PollsInFlight == scanStarts + fetches

\* enable(), and toggle() on a paused scanner.  startScanning runs up to the
\* first await of fetchLatestTokens, where it is suspended.
Enable ==
  /\ calls < MaxCalls
  /\ isPaused
  /\ isInCooldown \/ PollsInFlight < MaxFetch
  /\ calls' = calls + 1
  /\ isPaused' = FALSE
  /\ scanStarts' = IF isInCooldown THEN scanStarts ELSE scanStarts + 1
  /\ UNCHANGED <<isInCooldown, cooldownEndTime, cooldownTimeout, scanInterval, fetches>>
  /\ UNCHANGED <<storeVars, traderVars, chainVars, now, svcVars, exitVars, trades, candidates, cycles>>

\* A disable() that cancels the pending cooldown timer
DisableCancelsCooldown ==
  /\ calls < MaxCalls
  /\ ~isPaused
  /\ calls' = calls + 1
  /\ isPaused' = TRUE
  /\ scanInterval' = FALSE
  /\ cooldownTimeout' = Undef
  /\ UNCHANGED <<isInCooldown, cooldownEndTime, scanStarts, fetches>>
  /\ UNCHANGED <<storeVars, traderVars, chainVars, now, svcVars, exitVars, trades, candidates, cycles>>

\* disable(), and toggle() on an enabled scanner
Disable ==
  /\ calls < MaxCalls
  /\ ~isPaused
  /\ calls' = calls + 1
  /\ isPaused' = TRUE
  /\ scanInterval' = FALSE
  /\ UNCHANGED <<isInCooldown, cooldownEndTime, cooldownTimeout, scanStarts, fetches>>
  /\ UNCHANGED <<storeVars, traderVars, chainVars, now, svcVars, exitVars, trades, candidates, cycles>>

\* startScanning after its initial fetchLatestTokens has returned: the
\* periodic timer is (re)installed.
ScanStartDone ==
  /\ scanStarts > 0
  /\ scanStarts' = scanStarts - 1
  /\ scanInterval' = TRUE
  /\ UNCHANGED <<isPaused, isInCooldown, cooldownEndTime, cooldownTimeout, fetches>>
  /\ UNCHANGED <<storeVars, traderVars, chainVars, envVars, svcVars, exitVars, trades>>

\* The periodic scan timer fires: a poll is started unless the scanner is paused.
ScanTick ==
  /\ scanInterval
  /\ ~isPaused
  /\ PollsInFlight < MaxFetch
  /\ fetches' = fetches + 1
  /\ UNCHANGED <<isPaused, isInCooldown, cooldownEndTime, cooldownTimeout,
                 scanInterval, scanStarts>>
  /\ UNCHANGED <<storeVars, traderVars, chainVars, envVars, svcVars, exitVars, trades>>

\* A poll started by the periodic timer returns.
FetchDone ==
  /\ fetches > 0
  /\ fetches' = fetches - 1
  /\ UNCHANGED <<isPaused, isInCooldown, cooldownEndTime, cooldownTimeout,
                 scanInterval, scanStarts>>
  /\ UNCHANGED <<storeVars, traderVars, chainVars, envVars, svcVars, exitVars, trades>>

\* startCooldown(): the scanner fields after the call
CooldownStarted ==
  [isInCooldown |-> TRUE,
   cooldownEndTime |-> now + COOLDOWN_DURATION,
   scanInterval |-> FALSE,
   cooldownTimeout |-> now + COOLDOWN_DURATION]

CooldownKept ==
  [isInCooldown |-> isInCooldown,
   cooldownEndTime |-> cooldownEndTime,
   scanInterval |-> scanInterval,
   cooldownTimeout |-> cooldownTimeout]

startCooldown == IF ~isEnabled THEN CooldownKept ELSE CooldownStarted

\* The cooldown timer fires: endCooldown()
CooldownTimerFires ==
  /\ cooldownTimeout # Undef
  /\ now >= cooldownTimeout
  /\ cooldownTimeout' = Undef
  /\ IF isInCooldown
     THEN /\ isInCooldown' = FALSE
          /\ cooldownEndTime' = 0
          /\ scanStarts' = IF ~isPaused THEN scanStarts + 1 ELSE scanStarts
     ELSE UNCHANGED <<isInCooldown, cooldownEndTime, scanStarts>>
  /\ UNCHANGED <<isPaused, scanInterval, fetches>>
  /\ UNCHANGED <<storeVars, traderVars, chainVars, envVars, svcVars, exitVars, trades>>

\* Time passes.  Date.now() is read by startCooldown and, for lastTradeTime,
\* by the drain loop; here the clock is let run only while a cooldown timer
\* is pending.
Tick ==
  /\ cooldownTimeout # Undef
  /\ now < cooldownTimeout
  /\ now' = now + TickSize
  /\ UNCHANGED <<scannerVars, storeVars, traderVars, chainVars, svcVars, exitVars, trades, calls,
                 candidates, cycles>>

\* Time passes at any moment, one unit at a time: nothing in the server
\* holds the clock back.
Elapse ==
  /\ now < MaxClock
  /\ now' = now + 1
  /\ UNCHANGED <<scannerVars, storeVars, traderVars, chainVars, svcVars, exitVars, trades,
                 calls, candidates, cycles>>

(* ------------------------------------------------------------------ *)
(* MemStorage                                                           *)
(* ------------------------------------------------------------------ *)

defaultTradingSettings ==
  [autoTradeEnabled |-> FALSE,
   sellTargetMode |-> "multiplier",
   sellTargetMcap |-> 0,
   sellTargetMultiplier |-> 3,
   autoSellStopLossPercent |-> 50,
   maxConcurrentPositions |-> 5]

\* Of the filter's bounds the market cap and liquidity ones are modelled; the
\* others keep their defaults, under which every candidate passes them.
defaultTokenFilter ==
  [enabled |-> FALSE, minLiquidity |-> 0, minMarketCap |-> Undef, maxMarketCap |-> Undef]

\* PATCH /api/settings/:wallet bodies
SettingsUpdates ==
  { [autoTradeEnabled |-> TRUE],
    [autoTradeEnabled |-> FALSE],
    [sellTargetMode |-> "mcap", sellTargetMcap |-> 50000],
    [maxConcurrentPositions |-> 1],
    [autoSellStopLossPercent |-> 25] }

\* The body that switches auto-trade on
QueueSettings == { [autoTradeEnabled |-> TRUE] }

\* PATCH /api/filters/:wallet bodies
FilterUpdates ==
  { [enabled |-> TRUE], [enabled |-> TRUE, minMarketCap |-> 25000] }

ActiveOf(pos, w) == {i \in DOMAIN pos : pos[i].w = w /\ pos[i].status = "active"}

\* getAutoTradePositions(wallet, 'active'): ids in creation order
getAutoTradePositions(pos, w) ==
  LET RECURSIVE Ids(_)
      Ids(i) == IF i > Len(pos) THEN <<>>
                ELSE IF pos[i].w = w /\ pos[i].status = "active"
                     THEN <<i>> \o Ids(i + 1) ELSE Ids(i + 1)
  IN Ids(1)

hasActiveAutoTradePosition(pos, w, m) ==
  \E i \in DOMAIN pos : pos[i].w = w /\ pos[i].m = m /\ pos[i].status = "active"

isTokenBlacklisted(w, m) == <<w, m>> \in blacklist

createAutoTradePosition(pos, p) == Append(pos, p)

\* updateAutoTradePosition(id, updates): no effect on an unknown id
updateAutoTradePosition(pos, id, upd) ==
  IF id \in DOMAIN pos THEN [pos EXCEPT ![id] = Merge(@, upd)] ELSE pos

createAutoTradeEvent(ev, w, type, m) == BagAdd(ev, <<w, type, m>>)

\* PATCH /api/settings/:wallet: setTradingSettings, then trackWallet when the
\* body sets autoTradeEnabled
PatchSettings(w, upd) ==
  /\ calls < MaxCalls
  /\ Merge(tradingSettings[w], upd) # tradingSettings[w]
  /\ calls' = calls + 1
  /\ tradingSettings' = [tradingSettings EXCEPT ![w] = Merge(@, upd)]
  /\ enabledWallets' =
       IF "autoTradeEnabled" \notin DOMAIN upd THEN enabledWallets
       ELSE IF upd.autoTradeEnabled
            THEN IF w \in Range(enabledWallets) THEN enabledWallets
                 ELSE Append(enabledWallets, w)
            ELSE SelectSeq(enabledWallets, LAMBDA x : x # w)
  /\ UNCHANGED <<tokens, tokenFilters, positions, events, blacklist>>
  /\ UNCHANGED <<processedTokens, dedupTimers, pendingTrades, tradeQueue,
                 isProcessingQueue, drain, discarded, lastTradeTime, evals, manuals, monitors>>
  /\ UNCHANGED <<scannerVars, chainVars, now, svcVars, exitVars, trades, candidates, cycles>>

\* PATCH /api/filters/:wallet
PatchFilters(w, upd) ==
  /\ calls < MaxCalls
  /\ Merge(tokenFilters[w], upd) # tokenFilters[w]
  /\ calls' = calls + 1
  /\ tokenFilters' = [tokenFilters EXCEPT ![w] = Merge(@, upd)]
  /\ UNCHANGED <<tokens, tradingSettings, positions, events, blacklist>>
  /\ UNCHANGED <<scannerVars, traderVars, chainVars, now, svcVars, exitVars, trades, candidates, cycles>>

(* ------------------------------------------------------------------ *)
(* TradingService: signing, holdings cache, and the chain              *)
(* ------------------------------------------------------------------ *)

canAutoSign(w) == w = TradingWallet

NoCache == [present |-> FALSE, fresh |-> FALSE, tokens |-> {}]

HeldBy(w) == {m \in Mints : <<w, m>> \in holdings}

invalidateEveryTokenCache(cache, w) == [x \in DOMAIN cache |-> NoCache]

invalidateTokenCache(cache, w) == [cache EXCEPT ![w] = NoCache]

\* A cache entry older than CACHE_TTL is no longer served without a fetch.
CacheExpires(w) ==
  /\ tokenCache[w].present /\ tokenCache[w].fresh
  /\ tokenCache' = [tokenCache EXCEPT ![w].fresh = FALSE]
  /\ UNCHANGED <<inFlightRequests, txs, holdings>>
  /\ UNCHANGED <<scannerVars, storeVars, traderVars, envVars, svcVars, exitVars, trades>>

\* A pending transaction lands and executes.
ChainLand(sig) ==
  /\ txs[sig].st = "pending"
  /\ txs' = [txs EXCEPT ![sig].st = "landed"]
  /\ holdings' = IF txs[sig].side = "buy"
                 THEN holdings \cup {<<txs[sig].w, txs[sig].m>>}
                 ELSE holdings \ {<<txs[sig].w, txs[sig].m>>}
  /\ UNCHANGED <<tokenCache, inFlightRequests>>
  /\ UNCHANGED <<scannerVars, storeVars, traderVars, envVars, svcVars, exitVars, trades>>

\* A pending transaction lands with an execution error.
ChainFail(sig) ==
  /\ txs[sig].st = "pending"
  /\ txs' = [txs EXCEPT ![sig].st = "failed"]
  /\ UNCHANGED <<tokenCache, inFlightRequests, holdings>>
  /\ UNCHANGED <<scannerVars, storeVars, traderVars, envVars, svcVars, exitVars, trades>>

NewTx(w, m, side, path) == [w |-> w, m |-> m, side |-> side, st |-> "pending", path |-> path]

\* No holdings fetch in flight.  A fetch in flight carries the cache entry it
\* was started with (stale) and, once the token accounts have been read, what
\* it read (read).
NoFetch == [active |-> FALSE, stale |-> NoCache, read |-> NoCache]

\* getWalletTokens past the cache check, as seen in the in-flight map: a call
\* that finds a fetch in flight waits for it; otherwise it starts one.
getWalletTokensRefetches(request, cached) ==
  [active |-> TRUE, stale |-> cached, read |-> NoCache]

getWalletTokens(request, cached) ==
  IF request.active THEN request
  ELSE [active |-> TRUE, stale |-> cached, read |-> NoCache]

(* ------------------------------------------------------------------ *)
(* AutoTraderService: candidate evaluation and the trade queue         *)
(* ------------------------------------------------------------------ *)

\* tokenPassesFilter(token, filter)
tokenPassesFilter(mcap, liq, f) ==
  IF ~f.enabled THEN TRUE
  ELSE IF f.minLiquidity > 0 /\ liq < f.minLiquidity * 200 THEN FALSE
  ELSE IF f.minMarketCap # Undef /\ mcap < f.minMarketCap THEN FALSE
  ELSE IF f.maxMarketCap # Undef /\ mcap > f.maxMarketCap THEN FALSE
  ELSE TRUE

\* evaluateTokenForWallet, the filter step: the wallet's filter when it is
\* enabled, the basic defaults otherwise
PassesFilterStep(mcap, liq, f) ==
  IF f.enabled THEN tokenPassesFilter(mcap, liq, f)
  ELSE ~(mcap < 20000 \/ mcap > 500000) /\ ~(liq < 1000)

\* evaluateTokenForWallet: target market cap of a buy
TargetMcap(s, entryMcap) ==
  IF s.sellTargetMode = "mcap" /\ s.sellTargetMcap # 0
  THEN s.sellTargetMcap
  ELSE entryMcap * s.sellTargetMultiplier

\* evaluateTokenForWallet: stop-loss market cap of a buy
StopLossMcap(s, entryMcap) ==
  (entryMcap * (100 - s.autoSellStopLossPercent)) \div 100

IdleIntent ==
  [mint |-> NoMint, w |-> NoMint, settings |-> defaultTradingSettings,
   entryMcap |-> 0, targetMcap |-> 0, stopLossMcap |-> 0]

IdleDrain == [pc |-> "idle", trade |-> IdleIntent, n |-> 0, has |-> FALSE, sig |-> 0]

\* A loop that keeps its flag when it ends
LoopTopKeepsFlag(q, inCooldown, pos) ==
  IF q = <<>>
  THEN [q |-> <<>>, proc |-> TRUE, d |-> IdleDrain, drop |-> discarded]
  ELSE IF inCooldown
  THEN [q |-> <<>>, proc |-> TRUE, d |-> IdleDrain, drop |-> Len(q)]
  ELSE [q |-> Tail(q), proc |-> TRUE,
        d |-> [IdleDrain EXCEPT !.pc = "limit", !.trade = Head(q),
                                !.n = Cardinality(ActiveOf(pos, Head(q).w))],
        drop |-> discarded]

\* A loop top that drops only the head of the queue when it sees the cooldown
LoopTopHeadOnly(q, inCooldown, pos) ==
  IF q = <<>>
  THEN [q |-> <<>>, proc |-> FALSE, d |-> IdleDrain, drop |-> discarded]
  ELSE IF inCooldown
  THEN [q |-> Tail(q), proc |-> FALSE, d |-> IdleDrain, drop |-> 1]
  ELSE [q |-> Tail(q), proc |-> TRUE,
        d |-> [IdleDrain EXCEPT !.pc = "limit", !.trade = Head(q),
                                !.n = Cardinality(ActiveOf(pos, Head(q).w))],
        drop |-> discarded]

\* A loop top that does not look at the cooldown
LoopTopUnchecked(q, inCooldown, pos) ==
  IF q = <<>>
  THEN [q |-> <<>>, proc |-> FALSE, d |-> IdleDrain, drop |-> discarded]
  ELSE [q |-> Tail(q), proc |-> TRUE,
        d |-> [IdleDrain EXCEPT !.pc = "limit", !.trade = Head(q),
                                !.n = Cardinality(ActiveOf(pos, Head(q).w))],
        drop |-> discarded]

\* processTradeQueue, the top of the while loop up to its first await: the
\* queue, isProcessingQueue, the loop's position and the number of intents
\* dropped afterwards
LoopTop(q, inCooldown, pos) ==
  IF q = <<>>
  THEN [q |-> <<>>, proc |-> FALSE, d |-> IdleDrain, drop |-> discarded]
  ELSE IF inCooldown
  THEN [q |-> <<>>, proc |-> FALSE, d |-> IdleDrain, drop |-> Len(q)]
  ELSE [q |-> Tail(q), proc |-> TRUE,
        d |-> [IdleDrain EXCEPT !.pc = "limit", !.trade = Head(q),
                                !.n = Cardinality(ActiveOf(pos, Head(q).w))],
        drop |-> discarded]

\* A processTradeQueue() that starts a loop whether or not one is running
processTradeQueueUnguarded(q) ==
  IF q = <<>>
  THEN [q |-> q, proc |-> isProcessingQueue, d |-> drain, drop |-> discarded]
  ELSE LoopTop(q, isInCooldown, positions)

\* processTradeQueue() as called after a push
processTradeQueue(q) ==
  IF isProcessingQueue \/ q = <<>>
  THEN [q |-> q, proc |-> isProcessingQueue, d |-> drain, drop |-> discarded]
  ELSE LoopTop(q, isInCooldown, positions)

\* getEnabledWallets(): the tracked wallets whose settings still enable auto-trade
getEnabledWallets == SelectSeq(enabledWallets, LAMBDA w : tradingSettings[w].autoTradeEnabled)

\* fetchLatestTokens stores a candidate of at least 20k market cap and notifies
\* the listeners; the auto trader's listener is processToken.
FetchNotify(m, mcap, liq) ==
  /\ PollsInFlight > 0
  /\ candidates < MaxCandidates
  /\ candidates' = candidates + 1
  /\ tokens' = [tokens EXCEPT ![m] = mcap]
  /\ enabledWallets' = getEnabledWallets
  /\ evals' = IF getEnabledWallets = <<>> THEN evals
              ELSE evals \cup {[id |-> candidates + 1, mint |-> m, mcap |-> mcap,
                                liq |-> liq, ws |-> getEnabledWallets, pc |-> "check",
                                settings |-> defaultTradingSettings, wt |-> {}]}
  /\ UNCHANGED <<tradingSettings, tokenFilters, positions, events, blacklist>>
  /\ UNCHANGED <<processedTokens, dedupTimers, pendingTrades, tradeQueue,
                 isProcessingQueue, drain, discarded, lastTradeTime, manuals, monitors>>
  /\ UNCHANGED <<scannerVars, chainVars, now, svcVars, exitVars, trades, calls, cycles>>

\* processToken goes on to the next enabled wallet, or returns
EvalNext(t) ==
  IF Len(t.ws) = 1 THEN evals \ {t}
  ELSE (evals \ {t}) \cup {[t EXCEPT !.ws = Tail(@), !.pc = "check", !.wt = {},
                                     !.settings = defaultTradingSettings]}

\* Checks that do not look at the processed keys
EvalPassesUnmarked(t, w) ==
  /\ ~isInCooldown
  /\ ~isTokenBlacklisted(w, t.mint)
  /\ tradingSettings[w].autoTradeEnabled
  /\ PassesFilterStep(t.mcap, t.liq, tokenFilters[w])
  /\ Cardinality(ActiveOf(positions, w)) < tradingSettings[w].maxConcurrentPositions
  /\ ~hasActiveAutoTradePosition(positions, w, t.mint)

\* evaluateTokenForWallet, the checks up to the holdings lookup
EvalPasses(t, w) ==
  /\ ~isInCooldown
  /\ ~isTokenBlacklisted(w, t.mint)
  /\ <<w, t.mint>> \notin processedTokens
  /\ tradingSettings[w].autoTradeEnabled
  /\ PassesFilterStep(t.mcap, t.liq, tokenFilters[w])
  /\ Cardinality(ActiveOf(positions, w)) < tradingSettings[w].maxConcurrentPositions
  /\ ~hasActiveAutoTradePosition(positions, w, t.mint)

EvalChecks(t) ==
  LET w == Head(t.ws) IN
  /\ t.pc = "check"
  /\ IF ~EvalPasses(t, w)
     THEN /\ evals' = EvalNext(t)
          /\ UNCHANGED inFlightRequests
     ELSE \* getWalletTokens: fresh cache, or join / start the fetch
          IF tokenCache[w].present /\ tokenCache[w].fresh
          THEN /\ evals' = (evals \ {t}) \cup
                     {[t EXCEPT !.pc = "enqueue", !.settings = tradingSettings[w],
                                !.wt = tokenCache[w].tokens]}
               /\ UNCHANGED inFlightRequests
          ELSE /\ evals' = (evals \ {t}) \cup
                     {[t EXCEPT !.pc = "fetch", !.settings = tradingSettings[w]]}
               /\ inFlightRequests' =
                    [inFlightRequests EXCEPT
                       ![w] = getWalletTokens(inFlightRequests[w], tokenCache[w])]
  /\ UNCHANGED <<tokenCache, txs, holdings>>
  /\ UNCHANGED <<enabledWallets, processedTokens, dedupTimers, pendingTrades,
                 tradeQueue, isProcessingQueue, drain, discarded, lastTradeTime, manuals, monitors>>
  /\ UNCHANGED <<scannerVars, storeVars, envVars, svcVars, exitVars, trades>>

\* GET /api/wallet/:address/tokens: getWalletTokens for a caller outside the
\* auto trader.  A fresh cache entry answers at once; otherwise the call waits
\* for the fetch in flight or starts one.
WalletTokensRoute(w) ==
  /\ ~(tokenCache[w].present /\ tokenCache[w].fresh)
  /\ inFlightRequests' =
       [inFlightRequests EXCEPT ![w] = getWalletTokens(inFlightRequests[w], tokenCache[w])]
  /\ UNCHANGED <<tokenCache, txs, holdings>>
  /\ UNCHANGED <<scannerVars, storeVars, traderVars, envVars, svcVars, exitVars, trades>>

\* fetchWalletTokensInternal: the request for the wallet's token accounts
\* returns what the chain holds at that moment.  The request for the
\* Token-2022 accounts, which the fetch awaits next, is still to come.
WalletFetchReads(w) ==
  /\ inFlightRequests[w].active
  /\ ~inFlightRequests[w].read.present
  /\ inFlightRequests' =
       [inFlightRequests EXCEPT
          ![w].read = [present |-> TRUE, fresh |-> TRUE, tokens |-> HeldBy(w)]]
  /\ UNCHANGED <<tokenCache, txs, holdings>>
  /\ UNCHANGED <<scannerVars, storeVars, traderVars, envVars, svcVars, exitVars, trades>>

\* fetchWalletTokensInternal settles.  ok: the second request has returned
\* (or failed, silently) and what was read is cached and returned.  Not ok:
\* the first request failed and the stale entry or nothing is returned.
\* Every caller waiting on the shared promise resumes with the result, and
\* the first caller's finally removes the entry of the in-flight map.
WalletFetchDone(w, ok) ==
  LET result == IF ok THEN inFlightRequests[w].read.tokens
                ELSE IF inFlightRequests[w].stale.present
                     THEN inFlightRequests[w].stale.tokens ELSE {}
  IN
  /\ inFlightRequests[w].active
  /\ ok <=> inFlightRequests[w].read.present
  /\ inFlightRequests' = [inFlightRequests EXCEPT ![w] = NoFetch]
  /\ tokenCache' = IF ok
                   THEN [tokenCache EXCEPT ![w] = inFlightRequests[w].read]
                   ELSE tokenCache
  /\ evals' = {IF t.pc = "fetch" /\ Head(t.ws) = w
               THEN [t EXCEPT !.pc = "enqueue", !.wt = result] ELSE t : t \in evals}
  /\ UNCHANGED <<txs, holdings>>
  /\ UNCHANGED <<enabledWallets, processedTokens, dedupTimers, pendingTrades,
                 tradeQueue, isProcessingQueue, drain, discarded, lastTradeTime, manuals, monitors>>
  /\ UNCHANGED <<scannerVars, storeVars, envVars, svcVars, exitVars, trades>>

NewIntent(t, w) ==
  [mint |-> t.mint, w |-> w, settings |-> t.settings,
   entryMcap |-> t.mcap,
   targetMcap |-> TargetMcap(t.settings, t.mcap),
   stopLossMcap |-> StopLossMcap(t.settings, t.mcap)]

\* A lookup that never finds the pair in the queue
existingInQueueNever(q, mint, w) == FALSE

\* existingInQueue: an intent of the same mint and wallet is in the queue
existingInQueue(q, mint, w) ==
  \E i \in DOMAIN q : q[i].mint = mint /\ q[i].w = w

\* enqueue: the queue after the push, unchanged when the pair is queued already
Enqueue(q, intent) ==
  IF existingInQueue(q, intent.mint, intent.w) THEN q ELSE Append(q, intent)

\* evaluateTokenForWallet from the holdings check on: mark the key, then push
\* and start the drain loop, or queue the trade for manual approval
EvalEnqueue(t) ==
  LET w == Head(t.ws)
      key == <<w, t.mint>>
      intent == NewIntent(t, w)
      queued == existingInQueue(tradeQueue, t.mint, w)
      after == processTradeQueue(Enqueue(tradeQueue, intent))
  IN
  /\ t.pc = "enqueue"
  /\ evals' = EvalNext(t)
  /\ IF t.mint \in t.wt
     THEN UNCHANGED <<processedTokens, dedupTimers, pendingTrades, tradeQueue,
                      isProcessingQueue, drain, discarded, lastTradeTime, events>>
     ELSE /\ processedTokens' = processedTokens \cup {key}
          /\ dedupTimers' = BagAdd(dedupTimers, key)
          /\ IF canAutoSign(w)
             THEN IF queued
                  THEN UNCHANGED <<pendingTrades, tradeQueue, isProcessingQueue,
                                   drain, discarded, lastTradeTime, events>>
                  ELSE /\ tradeQueue' = after.q
                       /\ isProcessingQueue' = after.proc
                       /\ drain' = after.d
                       /\ discarded' = after.drop
                       /\ UNCHANGED <<pendingTrades, events, lastTradeTime>>
             ELSE /\ pendingTrades' =
                       [k \in DOMAIN pendingTrades \cup {key} |->
                          IF k = key THEN intent ELSE pendingTrades[k]]
                  /\ events' = createAutoTradeEvent(events, w, "buy_attempt", t.mint)
                  /\ UNCHANGED <<tradeQueue, isProcessingQueue, drain, discarded, lastTradeTime>>
  /\ UNCHANGED <<tokens, tradingSettings, tokenFilters, positions, blacklist>>
  /\ UNCHANGED <<enabledWallets, manuals, monitors>>
  /\ UNCHANGED <<scannerVars, chainVars, envVars, svcVars, exitVars, trades>>

\* The dedup timer of a key fires: the key leaves processedTokens.
DedupTimerFires(key) ==
  /\ BagCount(dedupTimers, key) > 0
  /\ dedupTimers' = BagRemove(dedupTimers, key)
  /\ processedTokens' = processedTokens \ {key}
  /\ UNCHANGED <<enabledWallets, pendingTrades, tradeQueue, isProcessingQueue,
                 drain, discarded, lastTradeTime, evals, manuals, monitors>>
  /\ UNCHANGED <<scannerVars, storeVars, chainVars, envVars, svcVars, exitVars, trades>>

(* ------------------------------------------------------------------ *)
(* AutoTraderService: the drain loop of the trade queue                *)
(* ------------------------------------------------------------------ *)

\* The loop goes back to the top of the while statement (continue, or the end
\* of the body).
Continue(inCooldown) ==
  LET after == LoopTop(tradeQueue, inCooldown, positions) IN
  /\ tradeQueue' = after.q
  /\ isProcessingQueue' = after.proc
  /\ drain' = after.d
  /\ discarded' = after.drop
  /\ UNCHANGED lastTradeTime

DrainFrame ==
  /\ UNCHANGED <<enabledWallets, processedTokens, dedupTimers, pendingTrades,
                 evals, manuals, monitors>>
  /\ UNCHANGED <<tokens, tradingSettings, tokenFilters, envVars, svcVars, exitVars, trades>>

NewPosition(w, m, entry, target, stop, sig, mult, via) ==
  [w |-> w, m |-> m, status |-> "active", entry |-> entry, target |-> target,
   stop |-> stop, buySig |-> sig, sellSig |-> 0, pnl |-> "unset", mult |-> mult,
   via |-> via]

\* The multiplier that produced a target, 0 when the target is the fixed one
MultUsed(s) ==
  IF s.sellTargetMode = "mcap" /\ s.sellTargetMcap # 0 THEN 0 ELSE s.sellTargetMultiplier

\* Position limit re-check; then the active-position lookup is issued.
DrainLimit ==
  /\ drain.pc = "limit"
  /\ IF drain.n >= drain.trade.settings.maxConcurrentPositions
     THEN Continue(isInCooldown)
     ELSE /\ drain' = [drain EXCEPT !.pc = "has",
                         !.has = hasActiveAutoTradePosition(positions, drain.trade.w,
                                                            drain.trade.mint)]
          /\ UNCHANGED <<tradeQueue, isProcessingQueue, discarded, lastTradeTime>>
  /\ UNCHANGED <<positions, events, blacklist>>
  /\ DrainFrame
  /\ UNCHANGED <<scannerVars, chainVars>>

\* Active-position re-check; then the buy_attempt event is logged.
DrainHas ==
  /\ drain.pc = "has"
  /\ IF drain.has
     THEN /\ Continue(isInCooldown)
          /\ UNCHANGED events
     ELSE /\ drain' = [drain EXCEPT !.pc = "attempt"]
          /\ events' = createAutoTradeEvent(events, drain.trade.w, "buy_attempt",
                                            drain.trade.mint)
          /\ UNCHANGED <<tradeQueue, isProcessingQueue, discarded, lastTradeTime>>
  /\ UNCHANGED <<positions, blacklist>>
  /\ DrainFrame
  /\ UNCHANGED <<scannerVars, chainVars>>

\* lastTradeTime = Date.now(), then executeAutoTrade is called: the buy
\* begins (quote and swap requests).
DrainAttempt ==
  /\ drain.pc = "attempt"
  /\ drain' = [drain EXCEPT !.pc = "trade"]
  /\ lastTradeTime' = now
  /\ UNCHANGED <<tradeQueue, isProcessingQueue, discarded>>
  /\ UNCHANGED <<positions, events, blacklist>>
  /\ DrainFrame
  /\ UNCHANGED <<scannerVars, chainVars>>

\* executeTrade and the submission: the signed transaction is handed to the
\* chain, or the trade fails before that and buy_failed is logged.
TradeSubmit(sent) ==
  /\ drain.pc = "trade"
  /\ IF sent
     THEN /\ Len(txs) < MaxTx
          /\ txs' = Append(txs, NewTx(drain.trade.w, drain.trade.mint, "buy", "queue"))
          /\ drain' = [drain EXCEPT !.pc = "confirm", !.sig = Len(txs) + 1]
          /\ UNCHANGED events
     ELSE /\ events' = createAutoTradeEvent(events, drain.trade.w, "buy_failed",
                                            drain.trade.mint)
          /\ drain' = [drain EXCEPT !.pc = "failed"]
          /\ UNCHANGED txs
  /\ UNCHANGED <<tradeQueue, isProcessingQueue, discarded, lastTradeTime>>
  /\ UNCHANGED <<positions, blacklist>>
  /\ DrainFrame
  /\ UNCHANGED <<scannerVars, tokenCache, inFlightRequests, holdings>>

\* A confirmation whose failure is not logged
TradeConfirmFailsSilently(confirmed) ==
  LET t == drain.trade IN
  /\ drain.pc = "confirm"
  /\ confirmed => txs[drain.sig].st = "landed"
  /\ IF confirmed
     THEN /\ tokenCache' = invalidateTokenCache(tokenCache, t.w)
          /\ positions' = createAutoTradePosition(positions,
                 NewPosition(t.w, t.mint, t.entryMcap, t.targetMcap, t.stopLossMcap,
                             drain.sig, MultUsed(t.settings), "queue"))
          /\ drain' = [drain EXCEPT !.pc = "pos"]
     ELSE /\ drain' = [drain EXCEPT !.pc = "failed"]
          /\ UNCHANGED <<tokenCache, positions>>
  /\ UNCHANGED <<tradeQueue, isProcessingQueue, discarded, lastTradeTime, blacklist, events>>
  /\ DrainFrame
  /\ UNCHANGED <<scannerVars, inFlightRequests, txs, holdings>>

\* confirmTransaction returns.  It reports true only for a transaction seen
\* landed without error; it reports false for a failed one, on the 30 s
\* timeout, and when the status request fails.  On true the wallet's holdings
\* cache is dropped and the position is created.
TradeConfirm(confirmed) ==
  LET t == drain.trade IN
  /\ drain.pc = "confirm"
  /\ confirmed => txs[drain.sig].st = "landed"
  /\ IF confirmed
     THEN /\ tokenCache' = invalidateTokenCache(tokenCache, t.w)
          /\ positions' = createAutoTradePosition(positions,
                 NewPosition(t.w, t.mint, t.entryMcap, t.targetMcap, t.stopLossMcap,
                             drain.sig, MultUsed(t.settings), "queue"))
          /\ drain' = [drain EXCEPT !.pc = "pos"]
          /\ UNCHANGED events
     ELSE /\ events' = createAutoTradeEvent(events, t.w, "buy_failed", t.mint)
          /\ drain' = [drain EXCEPT !.pc = "failed"]
          /\ UNCHANGED <<tokenCache, positions>>
  /\ UNCHANGED <<tradeQueue, isProcessingQueue, discarded, lastTradeTime, blacklist>>
  /\ DrainFrame
  /\ UNCHANGED <<scannerVars, inFlightRequests, txs, holdings>>

\* After the position: the buy_success event
DrainPos ==
  /\ drain.pc = "pos"
  /\ events' = createAutoTradeEvent(events, drain.trade.w, "buy_success", drain.trade.mint)
  /\ drain' = [drain EXCEPT !.pc = "evt"]
  /\ UNCHANGED <<tradeQueue, isProcessingQueue, discarded, lastTradeTime, positions, blacklist>>
  /\ DrainFrame
  /\ UNCHANGED <<scannerVars, chainVars>>

\* A loop that goes on after the event without the blacklist entry
DrainEvtSkipsBlacklist ==
  /\ drain.pc = "evt"
  /\ drain' = [drain EXCEPT !.pc = "bl"]
  /\ UNCHANGED <<tradeQueue, isProcessingQueue, discarded, lastTradeTime, positions, events,
                 blacklist>>
  /\ DrainFrame
  /\ UNCHANGED <<scannerVars, chainVars>>

\* After the event: the permanent blacklist entry
DrainEvt ==
  /\ drain.pc = "evt"
  /\ blacklist' = blacklist \cup {<<drain.trade.w, drain.trade.mint>>}
  /\ drain' = [drain EXCEPT !.pc = "bl"]
  /\ UNCHANGED <<tradeQueue, isProcessingQueue, discarded, lastTradeTime, positions, events>>
  /\ DrainFrame
  /\ UNCHANGED <<scannerVars, chainVars>>

\* After the blacklist entry: startCooldown(), the client is notified, and the
\* loop is back at its top in the same turn.
DrainBl ==
  /\ drain.pc = "bl"
  /\ isInCooldown' = startCooldown.isInCooldown
  /\ cooldownEndTime' = startCooldown.cooldownEndTime
  /\ scanInterval' = startCooldown.scanInterval
  /\ cooldownTimeout' = startCooldown.cooldownTimeout
  /\ Continue(startCooldown.isInCooldown)
  /\ UNCHANGED <<isPaused, scanStarts, fetches>>
  /\ UNCHANGED <<positions, events, blacklist>>
  /\ DrainFrame
  /\ UNCHANGED chainVars

\* After the buy_failed event: the loop is back at its top.
DrainFailed ==
  /\ drain.pc = "failed"
  /\ Continue(isInCooldown)
  /\ UNCHANGED <<positions, events, blacklist>>
  /\ DrainFrame
  /\ UNCHANGED <<scannerVars, chainVars>>

(* ------------------------------------------------------------------ *)
(* AutoTraderService: manual buys (routes /api/autotrade/buy...)       *)
(* ------------------------------------------------------------------ *)

ManualFrame ==
  /\ UNCHANGED <<enabledWallets, processedTokens, dedupTimers, tradeQueue,
                 isProcessingQueue, drain, discarded, lastTradeTime, evals, monitors>>
  /\ UNCHANGED <<tokens, tradingSettings, tokenFilters>>
  /\ UNCHANGED <<scannerVars, now, svcVars, exitVars, trades, candidates, cycles>>

\* pendingTrades.delete(key)
DeletePending(pt, key) == [k \in DOMAIN pt \ {key} |-> pt[k]]

\* POST /api/autotrade/buy for a pair with a pending manual trade, when
\* executeTrade fails: buy_failed is logged and the pending trade dropped.
\* (The route passes no signed transaction, so executeBuy never submits one;
\* when executeTrade succeeds the call changes nothing modelled here.)
ExecuteBuyFails(w, m) ==
  /\ calls < MaxCalls
  /\ <<w, m>> \in DOMAIN pendingTrades
  /\ calls' = calls + 1
  /\ events' = createAutoTradeEvent(events, w, "buy_failed", m)
  /\ pendingTrades' = DeletePending(pendingTrades, <<w, m>>)
  /\ UNCHANGED <<positions, blacklist, manuals>>
  /\ UNCHANGED chainVars
  /\ ManualFrame

\* POST /api/autotrade/buy/confirm: confirmBuy reads the settings and the
\* token and hands the signed transaction to submitSignedTrade.
ConfirmBuy(w, m) ==
  /\ calls < MaxCalls
  /\ Cardinality(manuals) < MaxManuals
  /\ calls' = calls + 1
  /\ manuals' = manuals \cup
       {[id |-> calls + 1, w |-> w, m |-> m, pc |-> "submit", sig |-> 0,
         settings |-> tradingSettings[w], entry |-> tokens[m]]}
  /\ UNCHANGED <<positions, events, blacklist, pendingTrades>>
  /\ UNCHANGED chainVars
  /\ ManualFrame

\* submitSignedTrade: the transaction is accepted by the RPC or the bundle
\* endpoint, or it is not and buy_failed is logged.
ManualSubmit(t, sent) ==
  /\ t \in manuals /\ t.pc = "submit"
  /\ IF sent
     THEN /\ Len(txs) < MaxTx
          /\ txs' = Append(txs, NewTx(t.w, t.m, "buy", "confirm"))
          /\ manuals' = (manuals \ {t}) \cup
                          {[t EXCEPT !.pc = "confirm", !.sig = Len(txs) + 1]}
          /\ UNCHANGED events
     ELSE /\ events' = createAutoTradeEvent(events, t.w, "buy_failed", t.m)
          /\ manuals' = manuals \ {t}
          /\ UNCHANGED txs
  /\ UNCHANGED <<positions, blacklist, pendingTrades, calls>>
  /\ UNCHANGED <<tokenCache, inFlightRequests, holdings>>
  /\ ManualFrame

\* confirmTransaction returns to confirmBuy: on true the holdings cache is
\* dropped and the position created, without looking at the blacklist or at
\* the active positions; on false buy_failed is logged.
ManualConfirm(t, confirmed) ==
  /\ t \in manuals /\ t.pc = "confirm"
  /\ confirmed => txs[t.sig].st = "landed"
  /\ IF confirmed
     THEN /\ tokenCache' = invalidateTokenCache(tokenCache, t.w)
          /\ positions' = createAutoTradePosition(positions,
                 NewPosition(t.w, t.m, t.entry, TargetMcap(t.settings, t.entry),
                             StopLossMcap(t.settings, t.entry), t.sig,
                             MultUsed(t.settings), "confirm"))
          /\ manuals' = (manuals \ {t}) \cup {[t EXCEPT !.pc = "pos"]}
          /\ UNCHANGED events
     ELSE /\ events' = createAutoTradeEvent(events, t.w, "buy_failed", t.m)
          /\ manuals' = manuals \ {t}
          /\ UNCHANGED <<tokenCache, positions>>
  /\ UNCHANGED <<blacklist, pendingTrades, calls>>
  /\ UNCHANGED <<inFlightRequests, txs, holdings>>
  /\ ManualFrame

\* confirmBuy after the position: the buy_success event
ManualPos(t) ==
  /\ t \in manuals /\ t.pc = "pos"
  /\ events' = createAutoTradeEvent(events, t.w, "buy_success", t.m)
  /\ manuals' = (manuals \ {t}) \cup {[t EXCEPT !.pc = "evt"]}
  /\ UNCHANGED <<positions, blacklist, pendingTrades, calls>>
  /\ UNCHANGED chainVars
  /\ ManualFrame

\* confirmBuy after the event: the permanent blacklist entry
ManualEvt(t) ==
  /\ t \in manuals /\ t.pc = "evt"
  /\ blacklist' = blacklist \cup {<<t.w, t.m>>}
  /\ manuals' = (manuals \ {t}) \cup {[t EXCEPT !.pc = "bl"]}
  /\ UNCHANGED <<positions, events, pendingTrades, calls>>
  /\ UNCHANGED chainVars
  /\ ManualFrame

\* confirmBuy after the blacklist entry: the pending trade is dropped.
ManualBl(t) ==
  /\ t \in manuals /\ t.pc = "bl"
  /\ pendingTrades' = DeletePending(pendingTrades, <<t.w, t.m>>)
  /\ manuals' = manuals \ {t}
  /\ UNCHANGED <<positions, events, blacklist, calls>>
  /\ UNCHANGED chainVars
  /\ ManualFrame

\* forceStopAll(wallet): every active position of the wallet becomes stopped,
\* an error event is logged, the wallet's pending manual trades are dropped.
StopAll(pos, w) ==
  [i \in DOMAIN pos |->
     IF pos[i].w = w /\ pos[i].status = "active"
     THEN [pos[i] EXCEPT !.status = "stopped"] ELSE pos[i]]

forceStopAll(w) ==
  /\ calls < MaxCalls
  /\ calls' = calls + 1
  /\ positions' = StopAll(positions, w)
  /\ events' = createAutoTradeEvent(events, w, "error", NoMint)
  /\ pendingTrades' = [k \in {x \in DOMAIN pendingTrades : x[1] # w} |-> pendingTrades[k]]
  /\ UNCHANGED <<blacklist, manuals>>
  /\ UNCHANGED chainVars
  /\ ManualFrame

(* ------------------------------------------------------------------ *)
(* AutoTraderService: the monitoring cycle                             *)
(* ------------------------------------------------------------------ *)

MonitorFrame ==
  /\ UNCHANGED <<processedTokens, dedupTimers, pendingTrades, tradeQueue,
                 isProcessingQueue, drain, discarded, lastTradeTime, evals, manuals>>
  /\ UNCHANGED <<tokens, tradingSettings, tokenFilters, blacklist>>
  /\ UNCHANGED <<scannerVars, now, svcVars, exitVars, trades, calls, candidates>>

NoWallet == [ws |-> <<>>, settings |-> defaultTradingSettings, ps |-> <<>>]

\* checkPositionsForSell, the loop over the wallets: the first wallet from ws
\* on that still has auto-trade enabled and has active positions, with the
\* settings and the positions read for it
RECURSIVE NextWallet(_)
NextWallet(ws) ==
  IF ws = <<>> THEN NoWallet
  ELSE IF ~tradingSettings[Head(ws)].autoTradeEnabled
          \/ getAutoTradePositions(positions, Head(ws)) = <<>>
       THEN NextWallet(Tail(ws))
       ELSE [ws |-> ws, settings |-> tradingSettings[Head(ws)],
             ps |-> getAutoTradePositions(positions, Head(ws))]

\* The cycle goes on to the next position of the snapshot, or to the next
\* wallet, or ends.
MonitorAdvance(t) ==
  IF Len(t.ps) > 1
  THEN (monitors \ {t}) \cup
         {[t EXCEPT !.ps = Tail(@), !.pc = "balance", !.cur = 0, !.reason = "-", !.sig = 0]}
  ELSE LET nw == NextWallet(Tail(t.ws)) IN
       IF nw.ws = <<>> THEN monitors \ {t}
       ELSE (monitors \ {t}) \cup
              {[t EXCEPT !.ws = nw.ws, !.settings = nw.settings, !.ps = nw.ps,
                         !.pc = "balance", !.cur = 0, !.reason = "-", !.sig = 0]}

\* A monitoring cycle that is not run during a cooldown
MonitorStartOutsideCooldown ==
  LET nw == NextWallet(getEnabledWallets) IN
  /\ ~isInCooldown
  /\ cycles' = cycles + 1
  /\ enabledWallets' = getEnabledWallets
  /\ monitors' = IF nw.ws = <<>> THEN monitors
                 ELSE monitors \cup
                        {[id |-> cycles + 1, ws |-> nw.ws, settings |-> nw.settings,
                          ps |-> nw.ps, pc |-> "balance", cur |-> 0, reason |-> "-",
                          sig |-> 0, inCooldown |-> isInCooldown]}
  /\ UNCHANGED <<positions, events>>
  /\ UNCHANGED chainVars
  /\ MonitorFrame

\* The monitor timer fires: checkPositionsForSell up to the first balance
\* request.  (inCooldown is history, not read by the code: whether the cycle
\* began during a cooldown.)
MonitorStart ==
  LET nw == NextWallet(getEnabledWallets) IN
  /\ cycles' = cycles + 1
  /\ enabledWallets' = getEnabledWallets
  /\ monitors' = IF nw.ws = <<>> THEN monitors
                 ELSE monitors \cup
                        {[id |-> cycles + 1, ws |-> nw.ws, settings |-> nw.settings,
                          ps |-> nw.ps, pc |-> "balance", cur |-> 0, reason |-> "-",
                          sig |-> 0, inCooldown |-> isInCooldown]}
  /\ UNCHANGED <<positions, events>>
  /\ UNCHANGED chainVars
  /\ MonitorFrame

\* getTokenBalance: the chain's answer, or 0 when the RPC request fails
getTokenBalance(w, m, rpcOk) == IF rpcOk /\ <<w, m>> \in holdings THEN 1 ELSE 0

\* evaluatePositionForSell after the balance request: a position without
\* balance is marked sold, otherwise the price is requested.
MonitorBalance(t, rpcOk) ==
  LET w == Head(t.ws)
      id == Head(t.ps)
  IN
  /\ t \in monitors /\ t.pc = "balance"
  /\ IF getTokenBalance(w, positions[id].m, rpcOk) <= 0
     THEN /\ positions' = updateAutoTradePosition(positions, id, [status |-> "sold"])
          /\ monitors' = (monitors \ {t}) \cup {[t EXCEPT !.pc = "zero"]}
     ELSE /\ monitors' = (monitors \ {t}) \cup {[t EXCEPT !.pc = "price"]}
          /\ UNCHANGED positions
  /\ UNCHANGED <<events, enabledWallets, cycles>>
  /\ UNCHANGED chainVars
  /\ MonitorFrame

\* A zero-balance close that logs nothing
MonitorZeroSilent(t) ==
  /\ t \in monitors /\ t.pc = "zero"
  /\ monitors' = (monitors \ {t}) \cup {[t EXCEPT !.pc = "after"]}
  /\ UNCHANGED <<positions, events, enabledWallets, cycles>>
  /\ UNCHANGED chainVars
  /\ MonitorFrame

\* After the zero-balance status write: the sell_success event
MonitorZero(t) ==
  /\ t \in monitors /\ t.pc = "zero"
  /\ events' = createAutoTradeEvent(events, Head(t.ws), "sell_success",
                                    positions[Head(t.ps)].m)
  /\ monitors' = (monitors \ {t}) \cup {[t EXCEPT !.pc = "after"]}
  /\ UNCHANGED <<positions, enabledWallets, cycles>>
  /\ UNCHANGED chainVars
  /\ MonitorFrame

\* The market cap a position is judged on: the fresh reading, else the stored one
CurrentMcap(reading, m) == IF reading # 0 THEN reading ELSE tokens[m]

\* A target test that excludes equality
TargetHitStrict(cur, p) == cur > p.target

TargetHit(cur, p) == cur >= p.target

\* A stop-loss test that excludes equality
StopLossHitStrict(cur, p) == cur < p.stop

StopLossHit(cur, p) == cur <= p.stop

\* A price step that closes the position without judging the reading
MonitorPriceForceCloses(t, reading) ==
  /\ t \in monitors /\ t.pc = "price"
  /\ positions' = updateAutoTradePosition(positions, Head(t.ps), [status |-> "sold"])
  /\ monitors' = MonitorAdvance(t)
  /\ UNCHANGED <<events, enabledWallets, cycles>>
  /\ UNCHANGED chainVars
  /\ MonitorFrame

\* evaluatePositionForSell after the price request
MonitorPrice(t, reading) ==
  LET w == Head(t.ws)
      p == positions[Head(t.ps)]
      cur == CurrentMcap(reading, p.m)
  IN
  /\ t \in monitors /\ t.pc = "price"
  /\ IF cur = 0
     THEN /\ monitors' = MonitorAdvance(t)
          /\ UNCHANGED events
     ELSE IF TargetHit(cur, p)
     THEN /\ events' = createAutoTradeEvent(events, w, "sell_attempt", p.m)
          /\ monitors' = (monitors \ {t}) \cup
               {[t EXCEPT !.pc = "sell", !.cur = cur, !.reason = "target_hit"]}
     ELSE IF StopLossHit(cur, p)
     THEN /\ events' = createAutoTradeEvent(events, w, "stop_loss", p.m)
          /\ monitors' = (monitors \ {t}) \cup
               {[t EXCEPT !.pc = "sell", !.cur = cur, !.reason = "stop_loss"]}
     ELSE /\ monitors' = MonitorAdvance(t)
          /\ UNCHANGED events
  /\ UNCHANGED <<positions, enabledWallets, cycles>>
  /\ UNCHANGED chainVars
  /\ MonitorFrame

\* autoExecuteSell begins: a wallet the server cannot sign for is only
\* notified; otherwise the balance is requested.
MonitorSell(t) ==
  /\ t \in monitors /\ t.pc = "sell"
  /\ monitors' = IF ~canAutoSign(Head(t.ws)) THEN MonitorAdvance(t)
                 ELSE (monitors \ {t}) \cup {[t EXCEPT !.pc = "sellbal"]}
  /\ UNCHANGED <<positions, events, enabledWallets, cycles>>
  /\ UNCHANGED chainVars
  /\ MonitorFrame

\* autoExecuteSell after the balance request
MonitorSellBalance(t, rpcOk) ==
  LET id == Head(t.ps) IN
  /\ t \in monitors /\ t.pc = "sellbal"
  /\ IF getTokenBalance(Head(t.ws), positions[id].m, rpcOk) <= 0
     THEN /\ positions' = updateAutoTradePosition(positions, id, [status |-> "sold"])
          /\ monitors' = (monitors \ {t}) \cup {[t EXCEPT !.pc = "after"]}
     ELSE /\ monitors' = (monitors \ {t}) \cup {[t EXCEPT !.pc = "selltrade"]}
          /\ UNCHANGED positions
  /\ UNCHANGED <<events, enabledWallets, cycles>>
  /\ UNCHANGED chainVars
  /\ MonitorFrame

\* executeAutoTrade of the sell: the transaction is handed to the chain, or
\* the trade fails before that and an error event is logged.
MonitorSellSubmit(t, sent) ==
  LET w == Head(t.ws)
      m == positions[Head(t.ps)].m
  IN
  /\ t \in monitors /\ t.pc = "selltrade"
  /\ IF sent
     THEN /\ Len(txs) < MaxTx
          /\ txs' = Append(txs, NewTx(w, m, "sell", "monitor"))
          /\ monitors' = (monitors \ {t}) \cup
                {[t EXCEPT !.pc = "sellconfirm", !.sig = Len(txs) + 1]}
          /\ UNCHANGED events
     ELSE /\ events' = createAutoTradeEvent(events, w, "error", m)
          /\ monitors' = (monitors \ {t}) \cup {[t EXCEPT !.pc = "after"]}
          /\ UNCHANGED txs
  /\ UNCHANGED <<positions, enabledWallets, cycles>>
  /\ UNCHANGED <<tokenCache, inFlightRequests, holdings>>
  /\ MonitorFrame

\* A sell whose failed confirmation closes the position as failed
MonitorSellConfirmClosesPosition(t, confirmed) ==
  LET w == Head(t.ws)
      id == Head(t.ps)
  IN
  /\ t \in monitors /\ t.pc = "sellconfirm"
  /\ confirmed => txs[t.sig].st = "landed"
  /\ positions' = updateAutoTradePosition(positions, id,
                      IF confirmed THEN [status |-> "sold", sellSig |-> t.sig]
                      ELSE [status |-> "failed"])
  /\ tokenCache' = IF confirmed THEN invalidateTokenCache(tokenCache, w) ELSE tokenCache
  /\ events' = IF confirmed THEN events
               ELSE createAutoTradeEvent(events, w, "error", positions[id].m)
  /\ monitors' = (monitors \ {t}) \cup
        {[t EXCEPT !.pc = IF confirmed THEN "sold" ELSE "after"]}
  /\ UNCHANGED <<enabledWallets, cycles>>
  /\ UNCHANGED <<inFlightRequests, txs, holdings>>
  /\ MonitorFrame

\* confirmTransaction returns to the sell: on true the holdings cache is
\* dropped and the position marked sold; on false an error event is logged.
MonitorSellConfirm(t, confirmed) ==
  LET w == Head(t.ws)
      id == Head(t.ps)
  IN
  /\ t \in monitors /\ t.pc = "sellconfirm"
  /\ confirmed => txs[t.sig].st = "landed"
  /\ IF confirmed
     THEN /\ tokenCache' = invalidateTokenCache(tokenCache, w)
          /\ positions' = updateAutoTradePosition(positions, id,
                              [status |-> "sold", sellSig |-> t.sig])
          /\ monitors' = (monitors \ {t}) \cup {[t EXCEPT !.pc = "sold"]}
          /\ UNCHANGED events
     ELSE /\ events' = createAutoTradeEvent(events, w, "error", positions[id].m)
          /\ monitors' = (monitors \ {t}) \cup {[t EXCEPT !.pc = "after"]}
          /\ UNCHANGED <<tokenCache, positions>>
  /\ UNCHANGED <<enabledWallets, cycles>>
  /\ UNCHANGED <<inFlightRequests, txs, holdings>>
  /\ MonitorFrame

\* After the sold status write of a confirmed sell: the sell_success event
MonitorSold(t) ==
  /\ t \in monitors /\ t.pc = "sold"
  /\ events' = createAutoTradeEvent(events, Head(t.ws), "sell_success",
                                    positions[Head(t.ps)].m)
  /\ monitors' = (monitors \ {t}) \cup {[t EXCEPT !.pc = "after"]}
  /\ UNCHANGED <<positions, enabledWallets, cycles>>
  /\ UNCHANGED chainVars
  /\ MonitorFrame

\* After the last write for a position: on to the next one.
MonitorAfter(t) ==
  /\ t \in monitors /\ t.pc = "after"
  /\ monitors' = MonitorAdvance(t)
  /\ UNCHANGED <<positions, events, enabledWallets, cycles>>
  /\ UNCHANGED chainVars
  /\ MonitorFrame

(* ------------------------------------------------------------------ *)
(* TradingService: orders, submission and confirmation                 *)
(* ------------------------------------------------------------------ *)

\* The relay endpoints, in list order
JITO_ENDPOINTS == 1..6

\* submitWithJitoMevProtection: passes over the endpoint list
maxRetries == 2

\* confirmTransaction: the polling window, in seconds
timeout == 30

\* What a relay request can come back with: an HTTP error whose body does or
\* does not say "already processed", a JSON-RPC error that does or does not,
\* an accepted transaction, a body with neither error nor result, or a failed
\* request.
RelayResponses ==
  {"httpAlready", "httpError", "rpcAlready", "rpcError", "accepted", "empty", "thrown"}

\* Seconds a status request takes on top of the one second pause
PollDelays == {0, 9}

NoStatus == [level |-> "none", err |-> FALSE]

\* getSignatureStatus answers for a transaction
SigLevels == {"none", "processed", "confirmed", "finalized"}

FrameOfService ==
  /\ UNCHANGED <<scannerVars, traderVars, envVars, exitVars, trades>>
  /\ UNCHANGED <<tokens, tradingSettings, tokenFilters, positions, events, blacklist>>
  /\ UNCHANGED <<inFlightRequests, txs, holdings>>

\* createOrder: POST /api/orders, and the first step of executeTrade
CreateOrder(w) ==
  /\ Len(orders) < MaxOrders
  /\ orders' = Append(orders, [status |-> "pending", txSignature |-> 0, w |-> w])
  /\ UNCHANGED <<submits, sigStatus, results, tokenCache>>
  /\ FrameOfService

\* An update that writes the status only
updateOrderStatusOnly(os, id, updates) ==
  IF id \notin DOMAIN os THEN os
  ELSE [os EXCEPT ![id] = Merge(@, [status |-> updates.status])]

\* updateOrder(id, updates): {...order, ...updates}; nothing for an unknown id
updateOrder(os, id, updates) ==
  IF id \notin DOMAIN os THEN os ELSE [os EXCEPT ![id] = Merge(@, updates)]

\* getOrder(id)
getOrder(os, id) == os[id]

(* ------------------------------------------------------------------ *)
(* TradingService: executeTrade, the venue of a trade                   *)
(* ------------------------------------------------------------------ *)

TradeFrame ==
  /\ UNCHANGED <<scannerVars, storeVars, traderVars, chainVars, envVars, exitVars>>
  /\ UNCHANGED <<submits, sigStatus, results>>

\* The TradeResult of a call that has not returned
NoTradeResult ==
  [success |-> FALSE, venue |-> "none", error |-> "none", requiresSignature |-> FALSE]

\* executeTrade(params): the order is created pending and the aggregator is
\* asked for a quote.  quote, swap, pumpfun: the answers received so far.
executeTrade(w) ==
  /\ Len(trades) < MaxTrades
  /\ orders' = Append(orders, [status |-> "pending", txSignature |-> 0, w |-> w])
  /\ trades' = Append(trades, [orderId |-> Len(orders) + 1, pc |-> "quote",
                               quote |-> "none", swap |-> "none", pumpfun |-> "none",
                               pumpfunRequests |-> 0, result |-> NoTradeResult])
  /\ TradeFrame

\* A venue resolution that gives up when the aggregator fails
PumpfunNotRequested(t) ==
  [t EXCEPT !.pc = "done",
            !.result = [NoTradeResult EXCEPT !.error = "No route available"]]

\* getPumpfunSwapTransaction is called: the bonding-curve venue is requested
RequestPumpfun(t) ==
  [t EXCEPT !.pc = "pumpfun", !.pumpfunRequests = @ + 1]

\* getQuote returns: null sends the call to the bonding curve; a quote has its
\* price written to the order, and the swap transaction is requested.
QuoteReturns(i, ok) ==
  LET t == trades[i] IN
  /\ t.pc = "quote"
  /\ trades' = [trades EXCEPT ![i] =
                  IF ok THEN [t EXCEPT !.pc = "swap", !.quote = "ok"]
                  ELSE RequestPumpfun([t EXCEPT !.quote = "null"])]
  /\ UNCHANGED orders
  /\ TradeFrame

\* getSwapTransaction returns: the transaction of the aggregator is returned
\* with venue 'jupiter', or null sends the call to the bonding curve.
SwapReturns(i, ok) ==
  LET t == trades[i] IN
  /\ t.pc = "swap"
  /\ trades' = [trades EXCEPT ![i] =
                  IF ok
                  THEN [t EXCEPT !.pc = "done", !.swap = "ok",
                                 !.result = [success |-> TRUE, venue |-> "jupiter",
                                             error |-> "none", requiresSignature |-> TRUE]]
                  ELSE RequestPumpfun([t EXCEPT !.swap = "null"])]
  /\ UNCHANGED orders
  /\ TradeFrame

\* getPumpfunSwapTransaction returns: its transaction is returned with venue
\* 'pumpfun', or the order is marked failed and an error is returned.
PumpfunReturns(i, ok) ==
  LET t == trades[i] IN
  /\ t.pc = "pumpfun"
  /\ IF ok
     THEN /\ trades' = [trades EXCEPT ![i] =
                 [t EXCEPT !.pc = "done", !.pumpfun = "ok",
                           !.result = [success |-> TRUE, venue |-> "pumpfun",
                                       error |-> "none", requiresSignature |-> TRUE]]]
          /\ UNCHANGED orders
     ELSE /\ trades' = [trades EXCEPT ![i] =
                 [t EXCEPT !.pc = "done", !.pumpfun = "null",
                           !.result = [NoTradeResult EXCEPT
                                         !.error = IF t.quote = "ok"
                                                   THEN "Failed to build swap transaction"
                                                   ELSE "No route available"]]]
          /\ orders' = updateOrder(orders, t.orderId, [status |-> "failed"])
  /\ TradeFrame

\* submitSignedTrade(orderId, signedTransaction, useMevProtection, wallet)
\* begins; the signature of the transaction is extracted when it can be
\* deserialized.  The submission is known by the number of its transaction.
SubmitSignedTradeBegins(orderId, mev, extracted) ==
  LET id == Len(sigStatus) + 1 IN
  /\ submits = {}
  /\ orderId \in DOMAIN orders
  /\ sigStatus' = Append(sigStatus, NoStatus)
  /\ submits' = {[id |-> id, orderId |-> orderId, mev |-> mev,
                  extracted |-> mev /\ extracted,
                  pc |-> IF mev THEN "post" ELSE "plain",
                  attempt |-> 0, ep |-> 1, tried |-> <<>>, directs |-> 0,
                  finals |-> 0, stage |-> "-", signed |-> FALSE,
                  confirmed |-> FALSE, elapsed |-> 0, saw |-> NoStatus]}
  /\ UNCHANGED <<orders, results, tokenCache>>
  /\ FrameOfService

\* The transaction of a submission makes progress on chain: it is processed,
\* with or without an execution error, then confirmed, then finalized.
SigProgress(id, err) ==
  /\ id \in DOMAIN sigStatus
  /\ sigStatus[id].level # "finalized"
  /\ sigStatus' = [sigStatus EXCEPT ![id] =
       IF @.level = "none" THEN [level |-> "processed", err |-> err]
       ELSE IF @.level = "processed" THEN [@ EXCEPT !.level = "confirmed"]
       ELSE [@ EXCEPT !.level = "finalized"]]
  /\ UNCHANGED <<orders, submits, results, tokenCache>>
  /\ FrameOfService

\* checkTransactionOnChain(signature)
checkTransactionOnChain(st, rpcOk) ==
  IF rpcOk /\ st.level \in {"confirmed", "finalized", "processed"} THEN ~st.err ELSE FALSE

\* A relay loop of one pass
NextEndpointOnePass(t) ==
  IF t.ep + 1 \in JITO_ENDPOINTS THEN [t EXCEPT !.ep = @ + 1, !.pc = "post"]
  ELSE [t EXCEPT !.pc = "direct"]

\* The relay loop goes on: the next endpoint of the pass, the next pass, or,
\* after the last pass, the direct broadcast.
NextEndpoint(t) ==
  IF t.ep + 1 \in JITO_ENDPOINTS THEN [t EXCEPT !.ep = @ + 1, !.pc = "post"]
  ELSE IF t.attempt + 1 < maxRetries
       THEN [t EXCEPT !.attempt = @ + 1, !.ep = 1, !.pc = "post"]
       ELSE [t EXCEPT !.pc = "direct"]

\* The submission has a signature: confirmTransaction begins.
Signed(t, stage) == [t EXCEPT !.signed = TRUE, !.stage = stage, !.pc = "blockhash"]

\* The submission has no signature: the order is marked failed.
Unsigned(t) == [t EXCEPT !.signed = FALSE, !.stage = "-", !.pc = "return"]

SubmitFrame ==
  /\ UNCHANGED <<sigStatus, results, tokenCache>>
  /\ FrameOfService

\* submitWithJitoMevProtection: a relay request returns.
RelayAnswers(t, resp) ==
  LET u == [t EXCEPT !.tried = Append(@, <<t.attempt, t.ep>>)] IN
  /\ t \in submits /\ t.pc = "post"
  /\ submits' = (submits \ {t}) \cup
       {IF resp \in {"httpAlready", "rpcAlready"}
        THEN IF t.extracted THEN [u EXCEPT !.pc = "verify"] ELSE NextEndpoint(u)
        ELSE IF resp = "accepted" THEN [u EXCEPT !.pc = "landed"]
        ELSE NextEndpoint(u)}
  /\ UNCHANGED orders
  /\ SubmitFrame

\* A lookup after "already processed" whose answer is not used
RelayVerifyIgnored(t, rpcOk) ==
  /\ t \in submits /\ t.pc = "verify"
  /\ submits' = (submits \ {t}) \cup {NextEndpoint(t)}
  /\ UNCHANGED orders
  /\ SubmitFrame

\* After "already processed": the extracted signature is looked up on chain.
RelayVerify(t, rpcOk) ==
  /\ t \in submits /\ t.pc = "verify"
  /\ submits' = (submits \ {t}) \cup
       {IF checkTransactionOnChain(sigStatus[t.id], rpcOk)
        THEN Signed(t, "verified") ELSE NextEndpoint(t)}
  /\ UNCHANGED orders
  /\ SubmitFrame

\* After a relay accepted the transaction and three seconds passed: the
\* returned signature is looked up on chain.
RelayLanded(t, rpcOk) ==
  /\ t \in submits /\ t.pc = "landed"
  /\ submits' = (submits \ {t}) \cup
       {IF checkTransactionOnChain(sigStatus[t.id], rpcOk)
        THEN Signed(t, "relay") ELSE [t EXCEPT !.pc = "fallback"]}
  /\ UNCHANGED orders
  /\ SubmitFrame

\* An accepted transaction that has not landed is offered to the next relay
RelayFallbackNextRelay(t, ok) ==
  /\ t \in submits /\ t.pc = "fallback"
  /\ submits' = (submits \ {t}) \cup {NextEndpoint(t)}
  /\ UNCHANGED orders
  /\ SubmitFrame

\* Accepted but not landed: the transaction is also broadcast directly, and a
\* signature is returned whether or not that works.
RelayFallback(t, ok) ==
  /\ t \in submits /\ t.pc = "fallback"
  /\ submits' = (submits \ {t}) \cup
       {Signed([t EXCEPT !.directs = @ + 1], IF ok THEN "fallback" ELSE "relay")}
  /\ UNCHANGED orders
  /\ SubmitFrame

\* submitTransaction: the direct broadcast, after every relay request failed
\* or when protection is off.  Without a signature the order is marked failed,
\* unless the transaction's own signature can still be looked up.
DirectBroadcast(t, ok) ==
  LET u == [t EXCEPT !.directs = @ + 1] IN
  /\ t \in submits /\ t.pc \in {"direct", "plain"}
  /\ IF ok
     THEN /\ submits' = (submits \ {t}) \cup {Signed(u, t.pc)}
          /\ UNCHANGED orders
     ELSE IF t.pc = "direct" /\ t.extracted
     THEN /\ submits' = (submits \ {t}) \cup {[u EXCEPT !.pc = "final"]}
          /\ UNCHANGED orders
     ELSE /\ submits' = (submits \ {t}) \cup {Unsigned(u)}
          /\ orders' = updateOrder(orders, t.orderId, [status |-> "failed"])
  /\ SubmitFrame

\* Last resort: the transaction's own signature is looked up on chain.
FinalCheck(t, rpcOk) ==
  LET u == [t EXCEPT !.finals = @ + 1] IN
  /\ t \in submits /\ t.pc = "final"
  /\ IF checkTransactionOnChain(sigStatus[t.id], rpcOk)
     THEN /\ submits' = (submits \ {t}) \cup {Signed(u, "final")}
          /\ UNCHANGED orders
     ELSE /\ submits' = (submits \ {t}) \cup {Unsigned(u)}
          /\ orders' = updateOrder(orders, t.orderId, [status |-> "failed"])
  /\ SubmitFrame

\* confirmTransaction returns to submitSignedTrade, which writes the outcome
\* and the signature to the order.
Decided(t, confirmed, st) ==
  /\ submits' = (submits \ {t}) \cup
       {[t EXCEPT !.confirmed = confirmed, !.saw = st, !.pc = "return"]}
  /\ orders' = updateOrder(orders, t.orderId,
                  [status |-> IF confirmed THEN "confirmed" ELSE "failed",
                   txSignature |-> t.id])

\* confirmTransaction: getLatestBlockhash; when it fails the call returns false.
ConfirmBlockhash(t, rpcOk) ==
  /\ t \in submits /\ t.pc = "blockhash"
  /\ IF rpcOk
     THEN /\ submits' = (submits \ {t}) \cup {[t EXCEPT !.pc = "poll", !.elapsed = 0]}
          /\ UNCHANGED orders
     ELSE Decided(t, FALSE, NoStatus)
  /\ SubmitFrame

\* A polling round that keeps waiting on an execution error
ConfirmPollWaits(t, rpcOk, delay) ==
  LET st == sigStatus[t.id] IN
  /\ t \in submits /\ t.pc = "poll"
  /\ t.elapsed < timeout
  /\ IF rpcOk /\ st.level \in {"confirmed", "finalized"} THEN Decided(t, ~st.err, st)
     ELSE /\ submits' = (submits \ {t}) \cup {[t EXCEPT !.elapsed = @ + delay + 1]}
          /\ UNCHANGED orders
  /\ SubmitFrame

\* confirmTransaction: one round of the polling loop.  A confirmed or
\* finalized status ends it, true without an execution error and false with
\* one; any other status with an execution error ends it with false;
\* otherwise, and when the request fails, the loop pauses for a second.
ConfirmPoll(t, rpcOk, delay) ==
  LET st == sigStatus[t.id] IN
  /\ t \in submits /\ t.pc = "poll"
  /\ t.elapsed < timeout
  /\ IF rpcOk /\ st.level \in {"confirmed", "finalized"} THEN Decided(t, ~st.err, st)
     ELSE IF rpcOk /\ st.err THEN Decided(t, FALSE, st)
     ELSE /\ submits' = (submits \ {t}) \cup
               {[t EXCEPT !.elapsed = @ + delay + 1]}
          /\ UNCHANGED orders
  /\ SubmitFrame

\* confirmTransaction: the window is over; one last status request.
ConfirmTimeout(t, rpcOk) ==
  LET st == sigStatus[t.id] IN
  /\ t \in submits /\ t.pc = "poll"
  /\ t.elapsed >= timeout
  /\ IF rpcOk /\ st.level \in {"confirmed", "finalized"} THEN Decided(t, ~st.err, st)
     ELSE Decided(t, FALSE, IF rpcOk THEN st ELSE NoStatus)
  /\ SubmitFrame

\* submitSignedTrade returns its TradeResult; after a confirmation the
\* wallet's holdings cache is dropped.
SubmitReturns(t) ==
  /\ t \in submits /\ t.pc = "return"
  /\ submits' = submits \ {t}
  /\ results' = Append(results,
       [orderId |-> t.orderId, success |-> t.confirmed,
        txSignature |-> IF t.signed THEN t.id ELSE 0])
  /\ tokenCache' = IF t.confirmed /\ t.orderId \in DOMAIN orders
                   THEN invalidateTokenCache(tokenCache, orders[t.orderId].w)
                   ELSE tokenCache
  /\ UNCHANGED <<orders, sigStatus>>
  /\ FrameOfService

\* A step of the submission in progress
SubmitStep ==
  \E t \in submits :
    \/ \E resp \in RelayResponses : RelayAnswers(t, resp)
    \/ \E rpcOk \in BOOLEAN : RelayVerify(t, rpcOk)
    \/ \E rpcOk \in BOOLEAN : RelayLanded(t, rpcOk)
    \/ \E ok \in BOOLEAN : RelayFallback(t, ok)
    \/ \E ok \in BOOLEAN : DirectBroadcast(t, ok)
    \/ \E rpcOk \in BOOLEAN : FinalCheck(t, rpcOk)
    \/ \E rpcOk \in BOOLEAN : ConfirmBlockhash(t, rpcOk)
    \/ \E rpcOk \in BOOLEAN, delay \in PollDelays : ConfirmPoll(t, rpcOk, delay)
    \/ \E rpcOk \in BOOLEAN : ConfirmTimeout(t, rpcOk)
    \/ SubmitReturns(t)

(* ------------------------------------------------------------------ *)
(* AutoTraderService: manual and instant sells                         *)
(* ------------------------------------------------------------------ *)

ExitFrame ==
  /\ UNCHANGED <<traderVars, trades>>
  /\ UNCHANGED <<tokens, tradingSettings, tokenFilters, blacklist>>
  /\ UNCHANGED <<scannerVars, now, candidates, cycles>>
  /\ UNCHANGED <<submits, sigStatus, results>>

\* A sell call in progress.  item: the call was made by the batch liquidation.
ExitTask(id, op, w, pid, orderId, item, pc) ==
  [id |-> id, op |-> op, w |-> w, pid |-> pid, orderId |-> orderId,
   item |-> item, pc |-> pc, sig |-> 0]

\* The call returns; the batch liquidation receives the result of its item.
ReturnedTo(L, t, success) ==
  IF t.item THEN [L EXCEPT !.cur[t.pid] = IF success THEN "success" ELSE "failure"]
  ELSE L

\* executeSell(wallet, positionId): the position is read (its status is not),
\* then the settings, then the balance is requested.
executeSell(w, pid) ==
  /\ calls < CloseCalls
  /\ Cardinality(exits) < MaxExits
  /\ calls' = calls + 1
  /\ exits' = IF pid \in DOMAIN positions /\ positions[pid].w = w
              THEN exits \cup {ExitTask(calls + 1, "executeSell", w, pid, 0, FALSE, "balance")}
              ELSE exits
  /\ UNCHANGED <<positions, events, orders, liquidation>>
  /\ UNCHANGED chainVars
  /\ ExitFrame

\* executeSell after the balance request: without balance the position is
\* marked sold and the call returns; otherwise the token metadata is requested.
ExecuteSellBalance(t, rpcOk) ==
  /\ t \in exits /\ t.op = "executeSell" /\ t.pc = "balance"
  /\ IF getTokenBalance(t.w, positions[t.pid].m, rpcOk) <= 0
     THEN /\ positions' = updateAutoTradePosition(positions, t.pid, [status |-> "sold"])
          /\ exits' = exits \ {t}
     ELSE /\ exits' = (exits \ {t}) \cup {[t EXCEPT !.pc = "order"]}
          /\ UNCHANGED positions
  /\ UNCHANGED <<events, orders, liquidation, calls>>
  /\ UNCHANGED chainVars
  /\ ExitFrame

\* executeTrade begins: the order is created pending, the quote is requested.
ExecuteSellOrder(t) ==
  /\ t \in exits /\ t.op = "executeSell" /\ t.pc = "order"
  /\ Len(orders) < MaxOrders
  /\ orders' = Append(orders, [status |-> "pending", txSignature |-> 0, w |-> t.w])
  /\ exits' = (exits \ {t}) \cup {[t EXCEPT !.pc = "trade", !.orderId = Len(orders) + 1]}
  /\ UNCHANGED <<positions, events, liquidation, calls>>
  /\ UNCHANGED chainVars
  /\ ExitFrame

\* executeTrade ends: the unsigned transaction is returned for signature, or
\* no route was found and the order is marked failed.
ExecuteSellTrade(t, built) ==
  /\ t \in exits /\ t.op = "executeSell" /\ t.pc = "trade"
  /\ orders' = IF built THEN orders ELSE updateOrder(orders, t.orderId, [status |-> "failed"])
  /\ exits' = exits \ {t}
  /\ UNCHANGED <<positions, events, liquidation, calls>>
  /\ UNCHANGED chainVars
  /\ ExitFrame

\* confirmSell(wallet, positionId, orderId, signedTransaction): the position
\* is read (its status is not), then the settings, and the signed
\* transaction is handed to submitSignedTrade.
confirmSell(w, pid, orderId) ==
  /\ calls < CloseCalls
  /\ Cardinality(exits) < MaxExits
  /\ calls' = calls + 1
  /\ exits' = IF pid \in DOMAIN positions
              THEN exits \cup {ExitTask(calls + 1, "confirmSell", w, pid, orderId, FALSE, "submit")}
              ELSE exits
  /\ UNCHANGED <<positions, events, orders, liquidation>>
  /\ UNCHANGED chainVars
  /\ ExitFrame

\* submitSignedTrade: the transaction is accepted, or it is not: the order is
\* marked failed and sell_failed is logged.
ConfirmSellSubmit(t, sent) ==
  /\ t \in exits /\ t.op = "confirmSell" /\ t.pc = "submit"
  /\ IF sent
     THEN /\ Len(txs) < MaxTx
          /\ txs' = Append(txs, NewTx(t.w, positions[t.pid].m, "sell", "confirm"))
          /\ exits' = (exits \ {t}) \cup {[t EXCEPT !.pc = "confirm", !.sig = Len(txs) + 1]}
          /\ UNCHANGED <<orders, events>>
     ELSE /\ orders' = updateOrder(orders, t.orderId, [status |-> "failed"])
          /\ events' = createAutoTradeEvent(events, t.w, "sell_failed", positions[t.pid].m)
          /\ exits' = exits \ {t}
          /\ UNCHANGED txs
  /\ UNCHANGED <<positions, liquidation, calls>>
  /\ UNCHANGED <<tokenCache, inFlightRequests, holdings>>
  /\ ExitFrame

\* confirmTransaction returns: the order gets its status and signature; on
\* true the holdings cache is dropped and the position is marked sold with the
\* signature; on false sell_failed is logged.
ConfirmSellConfirm(t, confirmed) ==
  /\ t \in exits /\ t.op = "confirmSell" /\ t.pc = "confirm"
  /\ confirmed => txs[t.sig].st = "landed"
  /\ orders' = updateOrder(orders, t.orderId,
                  [status |-> IF confirmed THEN "confirmed" ELSE "failed",
                   txSignature |-> t.sig])
  /\ IF confirmed
     THEN /\ tokenCache' = invalidateTokenCache(tokenCache, t.w)
          /\ positions' = updateAutoTradePosition(positions, t.pid,
                              [status |-> "sold", sellSig |-> t.sig,
                               pnl |-> "computed"])
          /\ exits' = (exits \ {t}) \cup {[t EXCEPT !.pc = "sold"]}
          /\ UNCHANGED events
     ELSE /\ events' = createAutoTradeEvent(events, t.w, "sell_failed", positions[t.pid].m)
          /\ exits' = exits \ {t}
          /\ UNCHANGED <<tokenCache, positions>>
  /\ UNCHANGED <<liquidation, calls>>
  /\ UNCHANGED <<inFlightRequests, txs, holdings>>
  /\ ExitFrame

\* After the sold status write of confirmSell: the sell_success event
ConfirmSellSold(t) ==
  /\ t \in exits /\ t.op = "confirmSell" /\ t.pc = "sold"
  /\ events' = createAutoTradeEvent(events, t.w, "sell_success", positions[t.pid].m)
  /\ exits' = exits \ {t}
  /\ UNCHANGED <<positions, orders, liquidation, calls>>
  /\ UNCHANGED chainVars
  /\ ExitFrame

\* executeInstantSell goes past its checks: the position exists, is active
\* and belongs to a wallet the server signs for.
InstantSellStarts(pid) ==
  /\ pid \in DOMAIN positions
  /\ positions[pid].status = "active"
  /\ canAutoSign(positions[pid].w)

\* executeInstantSell(positionId): after the checks sell_attempt is logged
\* and the balance is requested.
executeInstantSell(pid) ==
  /\ calls < CloseCalls
  /\ Cardinality(exits) < MaxExits
  /\ calls' = calls + 1
  /\ IF InstantSellStarts(pid)
     THEN /\ events' = createAutoTradeEvent(events, positions[pid].w, "sell_attempt",
                                            positions[pid].m)
          /\ exits' = exits \cup {ExitTask(calls + 1, "instantSell", positions[pid].w,
                                           pid, 0, FALSE, "balance")}
     ELSE UNCHANGED <<events, exits>>
  /\ UNCHANGED <<positions, orders, liquidation>>
  /\ UNCHANGED chainVars
  /\ ExitFrame

\* executeInstantSell after the balance request: without balance the
\* position is marked sold; otherwise the sell is handed to executeAutoTrade.
InstantSellBalance(t, rpcOk) ==
  /\ t \in exits /\ t.op = "instantSell" /\ t.pc = "balance"
  /\ IF getTokenBalance(t.w, positions[t.pid].m, rpcOk) <= 0
     THEN /\ positions' = updateAutoTradePosition(positions, t.pid, [status |-> "sold"])
          /\ exits' = (exits \ {t}) \cup {[t EXCEPT !.pc = "zero"]}
     ELSE /\ exits' = (exits \ {t}) \cup {[t EXCEPT !.pc = "trade"]}
          /\ UNCHANGED positions
  /\ UNCHANGED <<events, orders, liquidation, calls>>
  /\ UNCHANGED chainVars
  /\ ExitFrame

\* After the zero-balance status write: the error event, and the failure is returned.
InstantSellZero(t) ==
  /\ t \in exits /\ t.op = "instantSell" /\ t.pc = "zero"
  /\ events' = createAutoTradeEvent(events, t.w, "error", positions[t.pid].m)
  /\ exits' = exits \ {t}
  /\ liquidation' = ReturnedTo(liquidation, t, FALSE)
  /\ UNCHANGED <<positions, orders, calls>>
  /\ UNCHANGED chainVars
  /\ ExitFrame

\* executeAutoTrade of the sell: the transaction is handed to the chain, or
\* the trade fails before that and sell_failed is logged.
InstantSellSubmit(t, sent) ==
  /\ t \in exits /\ t.op = "instantSell" /\ t.pc = "trade"
  /\ IF sent
     THEN /\ Len(txs) < MaxTx
          /\ txs' = Append(txs, NewTx(t.w, positions[t.pid].m, "sell", "instant"))
          /\ exits' = (exits \ {t}) \cup {[t EXCEPT !.pc = "confirm", !.sig = Len(txs) + 1]}
          /\ UNCHANGED <<events, liquidation>>
     ELSE /\ events' = createAutoTradeEvent(events, t.w, "sell_failed", positions[t.pid].m)
          /\ exits' = exits \ {t}
          /\ liquidation' = ReturnedTo(liquidation, t, FALSE)
          /\ UNCHANGED txs
  /\ UNCHANGED <<positions, orders, calls>>
  /\ UNCHANGED <<tokenCache, inFlightRequests, holdings>>
  /\ ExitFrame

\* confirmTransaction returns to the instant sell: on true the holdings cache
\* is dropped and the position is marked sold with the signature; on false
\* sell_failed is logged.
InstantSellConfirm(t, confirmed) ==
  /\ t \in exits /\ t.op = "instantSell" /\ t.pc = "confirm"
  /\ confirmed => txs[t.sig].st = "landed"
  /\ IF confirmed
     THEN /\ tokenCache' = invalidateTokenCache(tokenCache, t.w)
          /\ positions' = updateAutoTradePosition(positions, t.pid,
                              [status |-> "sold", sellSig |-> t.sig,
                               pnl |-> "computed"])
          /\ exits' = (exits \ {t}) \cup {[t EXCEPT !.pc = "sold"]}
          /\ UNCHANGED <<events, liquidation>>
     ELSE /\ events' = createAutoTradeEvent(events, t.w, "sell_failed", positions[t.pid].m)
          /\ exits' = exits \ {t}
          /\ liquidation' = ReturnedTo(liquidation, t, FALSE)
          /\ UNCHANGED <<tokenCache, positions>>
  /\ UNCHANGED <<orders, calls>>
  /\ UNCHANGED <<inFlightRequests, txs, holdings>>
  /\ ExitFrame

\* After the sold status write of the instant sell: the sell_success event,
\* and the success is returned.
InstantSellSold(t) ==
  /\ t \in exits /\ t.op = "instantSell" /\ t.pc = "sold"
  /\ events' = createAutoTradeEvent(events, t.w, "sell_success", positions[t.pid].m)
  /\ exits' = exits \ {t}
  /\ liquidation' = ReturnedTo(liquidation, t, TRUE)
  /\ UNCHANGED <<positions, orders, calls>>
  /\ UNCHANGED chainVars
  /\ ExitFrame

(* ------------------------------------------------------------------ *)
(* AutoTraderService: batch liquidation                                *)
(* ------------------------------------------------------------------ *)

LiquidationFrame ==
  /\ UNCHANGED <<scannerVars, traderVars, chainVars, envVars, svcVars, trades>>
  /\ UNCHANGED <<tokens, tradingSettings, tokenFilters, blacklist>>

\* Array.prototype.slice(from, to), indices from 0
slice(list, from, to) ==
  SubSeq(list, from + 1, IF to < Len(list) THEN to ELSE Len(list))

\* for (let i = 0; i < list.length; i += batchSize) batches.push(list.slice(i, i + batchSize))
RECURSIVE BatchesFrom(_, _, _)
BatchesFrom(list, i, batchSize) ==
  IF i < Len(list)
  THEN <<slice(list, i, i + batchSize)>> \o BatchesFrom(list, i + batchSize, batchSize)
  ELSE <<>>

\* A split that puts the whole list in one batch
SplitWhole(list, batchSize) == <<list>>

SplitIntoBatches(list, batchSize) == BatchesFrom(list, 0, batchSize)

\* The sell_attempt events of the instant sells of ids that go past their checks
RECURSIVE LogAttempts(_, _)
LogAttempts(ev, ids) ==
  IF ids = <<>> THEN ev
  ELSE LogAttempts(IF InstantSellStarts(Head(ids))
                   THEN createAutoTradeEvent(ev, positions[Head(ids)].w, "sell_attempt",
                                             positions[Head(ids)].m)
                   ELSE ev,
                   Tail(ids))

\* batch.map(async ...): every sell of batch k is started.  A wallet token is
\* handed to executeAutoTrade; a position is handed to executeInstantSell,
\* which returns a failure at once when its checks fail.
StartBatch(L, k) ==
  [L EXCEPT !.pc = "run", !.batchIndex = k,
            !.cur = [i \in Range(L.batches[k]) |->
                       IF L.kind = "wallet" \/ InstantSellStarts(i)
                       THEN "pending" ELSE "failure"],
            !.attempts = [i \in DOMAIN @ |->
                            IF i \in Range(L.batches[k]) THEN @[i] + 1 ELSE @[i]]]

BeginBatch(L, k) ==
  /\ liquidation' = StartBatch(L, k)
  /\ IF L.kind = "wallet" THEN UNCHANGED <<events, exits>>
     ELSE /\ events' = LogAttempts(events, L.batches[k])
          /\ exits' = exits \cup
               {ExitTask(0, "instantSell", positions[i].w, i, 0, TRUE, "balance") :
                  i \in {j \in Range(L.batches[k]) : InstantSellStarts(j)}}

\* The work list is known: nothing to sell returns at once; otherwise the
\* sell_attempt event is logged.
Liquidate(kind, w, batchSize, list) ==
  IF list = <<>>
  THEN /\ liquidation' = [NoLiquidation EXCEPT !.pc = "done", !.kind = kind, !.w = w,
                                                !.batchSize = batchSize]
       /\ UNCHANGED events
  ELSE /\ liquidation' = [NoLiquidation EXCEPT !.pc = "split", !.kind = kind, !.w = w,
                                                !.batchSize = batchSize, !.list = list,
                                                !.total = Len(list),
                                                !.attempts = [i \in Range(list) |-> 0]]
       /\ events' = createAutoTradeEvent(events, w, "sell_attempt", NoMint)

\* batchSellWalletPositions(wallet, batchSize): getWalletTokens answers with n
\* sellable tokens (not SOL, balance > 0).
batchSellWalletPositions(w, batchSize, n) ==
  /\ liquidation.pc = "idle"
  /\ Liquidate("wallet", w, batchSize, [i \in 1..n |-> i])
  /\ UNCHANGED <<positions, exits>>
  /\ LiquidationFrame

\* batchSellPositions(wallet, batchSize): the work list is the wallet's
\* active positions.
batchSellPositions(w, batchSize) ==
  /\ liquidation.pc = "idle"
  /\ Liquidate("positions", w, batchSize, getAutoTradePositions(positions, w))
  /\ UNCHANGED <<positions, exits>>
  /\ LiquidationFrame

\* The list is split into batches and the first batch is started.
LiquidationSplits ==
  /\ liquidation.pc = "split"
  /\ BeginBatch([liquidation EXCEPT !.batches =
                   SplitIntoBatches(liquidation.list, liquidation.batchSize)], 1)
  /\ UNCHANGED positions
  /\ LiquidationFrame

\* executeAutoTrade of a wallet token returns a success, returns a failure
\* or throws.  (The token's transaction is not followed on the chain here.)
ItemSettles(i, outcome) ==
  /\ liquidation.pc = "run"
  /\ liquidation.kind = "wallet"
  /\ i \in DOMAIN liquidation.cur
  /\ liquidation.cur[i] = "pending"
  /\ liquidation' = [liquidation EXCEPT !.cur[i] = outcome]
  /\ UNCHANGED <<positions, events, exits>>
  /\ LiquidationFrame

\* The results of a batch, in the order of the batch
BatchResults(L) ==
  [j \in DOMAIN L.batches[L.batchIndex] |->
     LET i == L.batches[L.batchIndex][j] IN
     [item |-> i, success |-> L.cur[i] = "success", error |-> L.cur[i]]]

Successes(rs) == Cardinality({j \in DOMAIN rs : rs[j].success})

\* A batch that is counted before all of its sells have resolved
BatchCompletesEarly ==
  LET rs == BatchResults(liquidation)
      sold == liquidation.sold + Successes(rs)
      failed == liquidation.failed + (Len(rs) - Successes(rs))
      last == liquidation.batchIndex >= Len(liquidation.batches)
  IN
  /\ liquidation.pc = "run"
  /\ liquidation' = [liquidation EXCEPT !.results = @ \o rs, !.sold = sold,
                                         !.failed = failed,
                                         !.pc = IF last THEN "final" ELSE "delay"]
  /\ events' = IF last
               THEN createAutoTradeEvent(events, liquidation.w,
                                         IF sold > 0 THEN "sell_success" ELSE "error", NoMint)
               ELSE events
  /\ UNCHANGED <<positions, exits>>
  /\ LiquidationFrame

\* Promise.all of the batch resolves: the results are counted; after the last
\* batch the closing event is logged, otherwise the delay begins.
BatchCompletes ==
  LET rs == BatchResults(liquidation)
      sold == liquidation.sold + Successes(rs)
      failed == liquidation.failed + (Len(rs) - Successes(rs))
      last == liquidation.batchIndex >= Len(liquidation.batches)
  IN
  /\ liquidation.pc = "run"
  /\ \A i \in DOMAIN liquidation.cur : liquidation.cur[i] # "pending"
  /\ liquidation' = [liquidation EXCEPT !.results = @ \o rs, !.sold = sold,
                                         !.failed = failed,
                                         !.pc = IF last THEN "final" ELSE "delay"]
  /\ events' = IF last
               THEN createAutoTradeEvent(events, liquidation.w,
                                         IF sold > 0 THEN "sell_success" ELSE "error", NoMint)
               ELSE events
  /\ UNCHANGED <<positions, exits>>
  /\ LiquidationFrame

\* The delay between two batches is over: the next batch is started.
NextBatchStarts ==
  /\ liquidation.pc = "delay"
  /\ BeginBatch(liquidation, liquidation.batchIndex + 1)
  /\ UNCHANGED positions
  /\ LiquidationFrame

\* The liquidation returns {success: failed === 0, sold, failed, total, results}.
LiquidationReturns ==
  /\ liquidation.pc = "final"
  /\ liquidation' = [liquidation EXCEPT !.pc = "done"]
  /\ UNCHANGED <<positions, events, exits>>
  /\ LiquidationFrame

(* ------------------------------------------------------------------ *)
(* The server                                                           *)
(* ------------------------------------------------------------------ *)

Init ==
  /\ isPaused = TRUE
  /\ isInCooldown = FALSE
  /\ cooldownEndTime = 0
  /\ cooldownTimeout = Undef
  /\ scanInterval = FALSE
  /\ scanStarts = 0
  /\ fetches = 0
  /\ tokens = [m \in Mints |-> 0]
  /\ tradingSettings = [w \in Wallets |-> defaultTradingSettings]
  /\ tokenFilters = [w \in Wallets |-> defaultTokenFilter]
  /\ positions = <<>>
  /\ events = <<>>
  /\ blacklist = {}
  /\ enabledWallets = <<>>
  /\ processedTokens = {}
  /\ dedupTimers = <<>>
  /\ pendingTrades = <<>>
  /\ tradeQueue = <<>>
  /\ isProcessingQueue = FALSE
  /\ drain = IdleDrain
  /\ discarded = 0
  /\ lastTradeTime = 0
  /\ evals = {}
  /\ manuals = {}
  /\ monitors = {}
  /\ tokenCache = [w \in Wallets |-> NoCache]
  /\ inFlightRequests = [w \in Wallets |-> NoFetch]
  /\ txs = <<>>
  /\ holdings = {}
  /\ orders = <<>>
  /\ submits = {}
  /\ sigStatus = <<>>
  /\ results = <<>>
  /\ exits = {}
  /\ liquidation = NoLiquidation
  /\ trades = <<>>
  /\ now = 0
  /\ calls = 0
  /\ candidates = 0
  /\ cycles = 0

\* The automated path: scanner switch and cooldown, candidate feed,
\* evaluation, trade queue and drain loop, the chain and the timers, with the
\* trading wallet's settings as the only ones changed.
Next ==
  \/ Enable
  \/ Disable
  \/ ScanStartDone
  \/ ScanTick
  \/ FetchDone
  \/ CooldownTimerFires
  \/ Tick
  \/ \E upd \in QueueSettings : PatchSettings(TradingWallet, upd)
  \/ \E sig \in DOMAIN txs : ChainLand(sig)
  \/ \E m \in Mints, mcap \in CandidateMcaps, liq \in CandidateLiquidity :
        FetchNotify(m, mcap, liq)
  \/ \E t \in evals : EvalChecks(t)
  \/ \E w \in Wallets : WalletFetchReads(w)
  \/ \E w \in Wallets : WalletFetchDone(w, TRUE)
  \/ \E t \in evals : EvalEnqueue(t)
  \/ \E key \in DOMAIN dedupTimers : DedupTimerFires(key)
  \/ DrainLimit
  \/ DrainHas
  \/ DrainAttempt
  \/ \E sent \in BOOLEAN : TradeSubmit(sent)
  \/ \E confirmed \in BOOLEAN : TradeConfirm(confirmed)
  \/ DrainPos
  \/ DrainEvt
  \/ DrainBl
  \/ DrainFailed

Spec == Init /\ [][Next]_vars

\* Manual buys: the wallet the server cannot sign for gets candidates queued
\* for approval; buys are confirmed through the confirmation route for either
\* wallet; positions are force-stopped.  Holdings requests may fail, cache
\* entries expire, transactions may fail on chain.
NextManual ==
  \/ Enable
  \/ ScanStartDone
  \/ \E w \in Wallets \ {TradingWallet}, upd \in QueueSettings : PatchSettings(w, upd)
  \/ \E w \in Wallets \ {TradingWallet}, upd \in FilterUpdates : PatchFilters(w, upd)
  \/ \E w \in Wallets : CacheExpires(w)
  \/ \E sig \in DOMAIN txs : ChainLand(sig)
  \/ \E sig \in DOMAIN txs : ChainFail(sig)
  \/ \E m \in Mints, mcap \in CandidateMcaps, liq \in CandidateLiquidity :
        candidates < ManualCandidates /\ FetchNotify(m, mcap, liq)
  \/ \E t \in evals : EvalChecks(t)
  \/ \E w \in Wallets : WalletFetchReads(w)
  \/ \E w \in Wallets, ok \in BOOLEAN : WalletFetchDone(w, ok)
  \/ \E t \in evals : EvalEnqueue(t)
  \/ \E key \in DOMAIN dedupTimers : DedupTimerFires(key)
  \/ \E w \in Wallets, m \in Mints : ExecuteBuyFails(w, m)
  \/ \E w \in Wallets, m \in Mints : ConfirmBuy(w, m)
  \/ \E t \in manuals, sent \in BOOLEAN : ManualSubmit(t, sent)
  \/ \E t \in manuals, confirmed \in BOOLEAN : ManualConfirm(t, confirmed)
  \/ \E t \in manuals : ManualPos(t)
  \/ \E t \in manuals : ManualEvt(t)
  \/ \E t \in manuals : ManualBl(t)
  \/ \E w \in Wallets : forceStopAll(w)

SpecManual == Init /\ [][NextManual]_vars

\* Monitoring: the trading wallet buys one candidate through the queue, under
\* any of the settings, and monitoring cycles judge the position.
NextMonitor ==
  \/ calls < MonitorCalls /\ Enable
  \/ ScanStartDone
  \/ CooldownTimerFires
  \/ Tick
  \/ \E upd \in SettingsUpdates :
        calls < MonitorCalls /\ PatchSettings(TradingWallet, upd)
  \/ \E sig \in DOMAIN txs : ChainLand(sig)
  \/ \E m \in Mints, mcap \in CandidateMcaps, liq \in CandidateLiquidity :
        candidates < MonitorCandidates /\ FetchNotify(m, mcap, liq)
  \/ \E t \in evals : EvalChecks(t)
  \/ \E w \in Wallets : WalletFetchReads(w)
  \/ \E w \in Wallets : WalletFetchDone(w, TRUE)
  \/ \E t \in evals : EvalEnqueue(t)
  \/ DrainLimit
  \/ DrainHas
  \/ DrainAttempt
  \/ \E sent \in BOOLEAN : TradeSubmit(sent)
  \/ \E confirmed \in BOOLEAN : TradeConfirm(confirmed)
  \/ DrainPos
  \/ DrainEvt
  \/ DrainBl
  \/ DrainFailed
  \/ cycles < MaxCycles /\ MonitorStart
  \/ \E t \in monitors, rpcOk \in BOOLEAN : MonitorBalance(t, rpcOk)
  \/ \E t \in monitors : MonitorZero(t)
  \/ \E t \in monitors, reading \in McapReadings : MonitorPrice(t, reading)
  \/ \E t \in monitors : MonitorSell(t)
  \/ \E t \in monitors, rpcOk \in BOOLEAN : MonitorSellBalance(t, rpcOk)
  \/ \E t \in monitors, sent \in BOOLEAN : MonitorSellSubmit(t, sent)
  \/ \E t \in monitors, confirmed \in BOOLEAN : MonitorSellConfirm(t, confirmed)
  \/ \E t \in monitors : MonitorSold(t)
  \/ \E t \in monitors : MonitorAfter(t)

SpecMonitor == Init /\ [][NextMonitor]_vars

\* Exits of manually bought positions: buys of mints the store has no token
\* record for are confirmed for the trading wallet, and monitoring cycles
\* judge the positions.
NextExit ==
  \/ \E upd \in QueueSettings : calls < ExitCalls /\ PatchSettings(TradingWallet, upd)
  \/ \E sig \in DOMAIN txs : ChainLand(sig)
  \/ \E m \in Mints : calls < ExitCalls /\ ConfirmBuy(TradingWallet, m)
  \/ \E t \in manuals, sent \in BOOLEAN : ManualSubmit(t, sent)
  \/ \E t \in manuals, confirmed \in BOOLEAN : ManualConfirm(t, confirmed)
  \/ \E t \in manuals : ManualPos(t)
  \/ \E t \in manuals : ManualEvt(t)
  \/ \E t \in manuals : ManualBl(t)
  \/ cycles < ExitCycles /\ MonitorStart
  \/ \E t \in monitors, rpcOk \in BOOLEAN : MonitorBalance(t, rpcOk)
  \/ \E t \in monitors : MonitorZero(t)
  \/ \E t \in monitors, reading \in McapReadings : MonitorPrice(t, reading)
  \/ \E t \in monitors : MonitorSell(t)
  \/ \E t \in monitors, rpcOk \in BOOLEAN : MonitorSellBalance(t, rpcOk)
  \/ \E t \in monitors, sent \in BOOLEAN : MonitorSellSubmit(t, sent)
  \/ \E t \in monitors, confirmed \in BOOLEAN : MonitorSellConfirm(t, confirmed)
  \/ \E t \in monitors : MonitorSold(t)
  \/ \E t \in monitors : MonitorAfter(t)

SpecExit == Init /\ [][NextExit]_vars

\* Signed submissions: orders are created, signed transactions are submitted
\* against them one after the other, with and without protection, while the
\* transactions make progress on chain.  Every request of a submission in
\* progress returns in the end.
NextSubmit ==
  \/ \E w \in {TradingWallet} : CreateOrder(w)
  \/ \E orderId \in DOMAIN orders, mev \in BOOLEAN, extracted \in BOOLEAN :
        Len(sigStatus) < MaxSubmits /\ SubmitSignedTradeBegins(orderId, mev, extracted)
  \/ \E id \in DOMAIN sigStatus, err \in BOOLEAN : SigProgress(id, err)
  \/ \E t \in submits, resp \in RelayResponses : RelayAnswers(t, resp)
  \/ \E t \in submits, rpcOk \in BOOLEAN : RelayVerify(t, rpcOk)
  \/ \E t \in submits, rpcOk \in BOOLEAN : RelayLanded(t, rpcOk)
  \/ \E t \in submits, ok \in BOOLEAN : RelayFallback(t, ok)
  \/ \E t \in submits, ok \in BOOLEAN : DirectBroadcast(t, ok)
  \/ \E t \in submits, rpcOk \in BOOLEAN : FinalCheck(t, rpcOk)
  \/ \E t \in submits, rpcOk \in BOOLEAN : ConfirmBlockhash(t, rpcOk)
  \/ \E t \in submits, rpcOk \in BOOLEAN, delay \in PollDelays : ConfirmPoll(t, rpcOk, delay)
  \/ \E t \in submits, rpcOk \in BOOLEAN : ConfirmTimeout(t, rpcOk)
  \/ \E t \in submits : SubmitReturns(t)

\* Fairness: every step of a submission is the continuation of an awaited
\* request or timer; the event loop runs it once the request settles, and
\* every request settles (with an answer or an error), so a submission that
\* can take a step eventually takes one.
SpecSubmit == Init /\ [][NextSubmit]_vars /\ WF_vars(SubmitStep)

\* Orders: signed transactions are submitted without protection, one after
\* the other, against the orders created.
NextOrders ==
  \/ \E w \in {TradingWallet} : CreateOrder(w)
  \/ \E orderId \in DOMAIN orders :
        Len(sigStatus) < OrderSubmits /\ SubmitSignedTradeBegins(orderId, FALSE, FALSE)
  \/ \E id \in DOMAIN sigStatus, err \in BOOLEAN : SigProgress(id, err)
  \/ \E t \in submits, ok \in BOOLEAN : DirectBroadcast(t, ok)
  \/ \E t \in submits, rpcOk \in BOOLEAN : ConfirmBlockhash(t, rpcOk)
  \/ \E t \in submits, rpcOk \in BOOLEAN, delay \in PollDelays : ConfirmPoll(t, rpcOk, delay)
  \/ \E t \in submits, rpcOk \in BOOLEAN : ConfirmTimeout(t, rpcOk)
  \/ \E t \in submits : SubmitReturns(t)

SpecOrders == Init /\ [][NextOrders]_vars

\* Closing positions: buys are confirmed for the trading wallet, and the
\* positions are stopped, sold by hand, sold instantly and liquidated in
\* batches, in any interleaving.
NextClose ==
  \/ \E sig \in DOMAIN txs : ChainLand(sig)
  \/ \E m \in Mints : calls < CloseCalls /\ ConfirmBuy(TradingWallet, m)
  \/ \E t \in manuals, sent \in BOOLEAN : ManualSubmit(t, sent)
  \/ \E t \in manuals, confirmed \in BOOLEAN : ManualConfirm(t, confirmed)
  \/ \E t \in manuals : ManualPos(t)
  \/ \E t \in manuals : ManualEvt(t)
  \/ \E t \in manuals : ManualBl(t)
  \/ calls < CloseCalls /\ forceStopAll(TradingWallet)
  \/ \E upd \in QueueSettings : calls < CloseCalls /\ PatchSettings(TradingWallet, upd)
  \/ cycles < MaxCycles /\ MonitorStart
  \/ \E t \in monitors, rpcOk \in BOOLEAN : MonitorBalance(t, rpcOk)
  \/ \E t \in monitors : MonitorZero(t)
  \/ \E t \in monitors, reading \in McapReadings : MonitorPrice(t, reading)
  \/ \E t \in monitors : MonitorSell(t)
  \/ \E t \in monitors, rpcOk \in BOOLEAN : MonitorSellBalance(t, rpcOk)
  \/ \E t \in monitors, sent \in BOOLEAN : MonitorSellSubmit(t, sent)
  \/ \E t \in monitors, confirmed \in BOOLEAN : MonitorSellConfirm(t, confirmed)
  \/ \E t \in monitors : MonitorSold(t)
  \/ \E t \in monitors : MonitorAfter(t)
  \/ \E pid \in DOMAIN positions : executeSell(TradingWallet, pid)
  \/ \E t \in exits, rpcOk \in BOOLEAN : ExecuteSellBalance(t, rpcOk)
  \/ \E t \in exits : ExecuteSellOrder(t)
  \/ \E t \in exits, built \in BOOLEAN : ExecuteSellTrade(t, built)
  \/ \E pid \in DOMAIN positions, orderId \in 0..MaxOrders :
        confirmSell(TradingWallet, pid, orderId)
  \/ \E t \in exits, sent \in BOOLEAN : ConfirmSellSubmit(t, sent)
  \/ \E t \in exits, confirmed \in BOOLEAN : ConfirmSellConfirm(t, confirmed)
  \/ \E t \in exits : ConfirmSellSold(t)
  \/ \E pid \in DOMAIN positions : executeInstantSell(pid)
  \/ \E t \in exits, rpcOk \in BOOLEAN : InstantSellBalance(t, rpcOk)
  \/ \E t \in exits : InstantSellZero(t)
  \/ \E t \in exits, sent \in BOOLEAN : InstantSellSubmit(t, sent)
  \/ \E t \in exits, confirmed \in BOOLEAN : InstantSellConfirm(t, confirmed)
  \/ \E t \in exits : InstantSellSold(t)
  \/ \E batchSize \in 1..CloseBatchSize : batchSellPositions(TradingWallet, batchSize)
  \/ LiquidationSplits
  \/ BatchCompletes
  \/ NextBatchStarts
  \/ LiquidationReturns

SpecClose == Init /\ [][NextClose]_vars

\* Batch liquidation of the tokens in a wallet
NextBatch ==
  \/ \E batchSize \in 1..MaxBatchSize, n \in 0..MaxItems :
        batchSellWalletPositions(TradingWallet, batchSize, n)
  \/ \E batchSize \in 1..MaxBatchSize : batchSellPositions(TradingWallet, batchSize)
  \/ LiquidationSplits
  \/ \E i \in 1..MaxItems, outcome \in {"success", "failure", "thrown"} : ItemSettles(i, outcome)
  \/ BatchCompletes
  \/ NextBatchStarts
  \/ LiquidationReturns

SpecBatch == Init /\ [][NextBatch]_vars

\* The pace of the drain loop: the automated path with two candidates, while
\* the clock runs freely.
NextPace ==
  \/ calls < PaceCalls /\ Enable
  \/ calls < PaceCalls /\ Disable
  \/ ScanStartDone
  \/ Elapse
  \/ \E upd \in QueueSettings : calls < PaceCalls /\ PatchSettings(TradingWallet, upd)
  \/ \E sig \in DOMAIN txs : ChainLand(sig)
  \/ \E m \in Mints, mcap \in CandidateMcaps, liq \in CandidateLiquidity :
        candidates < PaceCandidates /\ FetchNotify(m, mcap, liq)
  \/ \E t \in evals : EvalChecks(t)
  \/ \E w \in Wallets : WalletFetchReads(w)
  \/ \E w \in Wallets : WalletFetchDone(w, TRUE)
  \/ \E t \in evals : EvalEnqueue(t)
  \/ DrainLimit
  \/ DrainHas
  \/ DrainAttempt
  \/ \E sent \in BOOLEAN : TradeSubmit(sent)
  \/ \E confirmed \in BOOLEAN : TradeConfirm(confirmed)
  \/ DrainPos
  \/ DrainEvt
  \/ DrainBl
  \/ DrainFailed

SpecPace == Init /\ [][NextPace]_vars

\* A step of the drain loop
DrainStep ==
  \/ DrainLimit
  \/ DrainHas
  \/ DrainAttempt
  \/ \E sent \in BOOLEAN : TradeSubmit(sent)
  \/ \E confirmed \in BOOLEAN : TradeConfirm(confirmed)
  \/ DrainPos
  \/ DrainEvt
  \/ DrainBl
  \/ DrainFailed

\* Fairness: every step of the drain loop is the continuation of an awaited
\* store call or request; the store calls resolve at once, every request
\* settles with an answer or an error, and confirmTransaction gives up after
\* its timeout, so a loop that can take a step eventually takes one.
SpecDrain == Init /\ [][NextPace]_vars /\ WF_vars(DrainStep)

\* Venue resolution: executeTrade calls of the trading wallet, whose quote,
\* swap and bonding-curve requests succeed or fail in any combination.
NextTrade ==
  \/ executeTrade(TradingWallet)
  \/ \E i \in DOMAIN trades, ok \in BOOLEAN : QuoteReturns(i, ok)
  \/ \E i \in DOMAIN trades, ok \in BOOLEAN : SwapReturns(i, ok)
  \/ \E i \in DOMAIN trades, ok \in BOOLEAN : PumpfunReturns(i, ok)

SpecTrade == Init /\ [][NextTrade]_vars

\* Cooldown: the scanner switch and the trade queue while the clock runs to
\* the deadline of the pending cooldown timer.
NextCooldown ==
  \/ calls < PaceCalls /\ Enable
  \/ calls < PaceCalls /\ Disable
  \/ ScanStartDone
  \/ Tick
  \/ CooldownTimerFires
  \/ \E upd \in QueueSettings : calls < PaceCalls /\ PatchSettings(TradingWallet, upd)
  \/ \E sig \in DOMAIN txs : ChainLand(sig)
  \/ \E m \in Mints, mcap \in CandidateMcaps, liq \in CandidateLiquidity :
        candidates < PaceCandidates /\ FetchNotify(m, mcap, liq)
  \/ \E t \in evals : EvalChecks(t)
  \/ \E w \in Wallets : WalletFetchReads(w)
  \/ \E w \in Wallets : WalletFetchDone(w, TRUE)
  \/ \E t \in evals : EvalEnqueue(t)
  \/ DrainStep

\* Fairness: the clock advances, and Node.js runs the callback of a timer
\* whose deadline has passed.
SpecCooldown ==
  Init /\ [][NextCooldown]_vars /\ WF_vars(Tick) /\ WF_vars(CooldownTimerFires)

\* Buys: the trade queue of the self-signing wallet together with the manual
\* buy confirmations of both wallets and forceStopAll.
NextBuys ==
  \/ calls < PaceCalls /\ Enable
  \/ ScanStartDone
  \/ \E upd \in QueueSettings : calls < PaceCalls /\ PatchSettings(TradingWallet, upd)
  \/ \E sig \in DOMAIN txs : ChainLand(sig)
  \/ \E m \in Mints, mcap \in CandidateMcaps, liq \in CandidateLiquidity :
        candidates < PaceCandidates /\ FetchNotify(m, mcap, liq)
  \/ \E t \in evals : EvalChecks(t)
  \/ \E w \in Wallets : WalletFetchReads(w)
  \/ \E w \in Wallets : WalletFetchDone(w, TRUE)
  \/ \E t \in evals : EvalEnqueue(t)
  \/ DrainStep
  \/ \E w \in Wallets, m \in Mints : calls < PaceCalls /\ ConfirmBuy(w, m)
  \/ \E t \in manuals, sent \in BOOLEAN : ManualSubmit(t, sent)
  \/ \E t \in manuals, confirmed \in BOOLEAN : ManualConfirm(t, confirmed)
  \/ \E t \in manuals : ManualPos(t)
  \/ \E t \in manuals : ManualEvt(t)
  \/ \E t \in manuals : ManualBl(t)
  \/ \E w \in Wallets : forceStopAll(w)

SpecBuys == Init /\ [][NextBuys]_vars

\* Holdings: a signed transaction is submitted against an order of either
\* wallet while the holdings of both wallets are requested, cached and expire.
NextHoldings ==
  \/ \E w \in Wallets : CreateOrder(w)
  \/ \E orderId \in DOMAIN orders :
        Len(sigStatus) < MaxSubmits /\ SubmitSignedTradeBegins(orderId, FALSE, FALSE)
  \/ \E id \in DOMAIN sigStatus, err \in BOOLEAN : SigProgress(id, err)
  \/ \E t \in submits, ok \in BOOLEAN : DirectBroadcast(t, ok)
  \/ \E t \in submits, rpcOk \in BOOLEAN : ConfirmBlockhash(t, rpcOk)
  \/ \E t \in submits, rpcOk \in BOOLEAN, delay \in PollDelays : ConfirmPoll(t, rpcOk, delay)
  \/ \E t \in submits, rpcOk \in BOOLEAN : ConfirmTimeout(t, rpcOk)
  \/ \E t \in submits : SubmitReturns(t)
  \/ \E w \in Wallets : WalletTokensRoute(w)
  \/ \E w \in Wallets : WalletFetchReads(w)
  \/ \E w \in Wallets, ok \in BOOLEAN : WalletFetchDone(w, ok)
  \/ \E w \in Wallets : CacheExpires(w)

SpecHoldings == Init /\ [][NextHoldings]_vars

(* ------------------------------------------------------------------ *)
(* Properties                                                           *)
(* ------------------------------------------------------------------ *)

ActivePairs(w, m) ==
  {i \in DOMAIN positions :
     positions[i].w = w /\ positions[i].m = m /\ positions[i].status = "active"}

\* C1: the store never holds two active AutoTradePosition records for the
\* same (wallet, mint).
C1_OneActivePositionPerPair ==
  \A w \in Wallets, m \in Mints : Cardinality(ActivePairs(w, m)) <= 1

\* C2: once a (wallet, mint) is on the blacklist, no buy is submitted for it
\* and no new position is created for it.
C2_BlacklistedNeverBoughtAgain ==
  [][ /\ \A i \in DOMAIN positions' \ DOMAIN positions :
            <<positions'[i].w, positions'[i].m>> \notin blacklist
      /\ \A i \in DOMAIN txs' \ DOMAIN txs :
            txs'[i].side = "buy" => <<txs'[i].w, txs'[i].m>> \notin blacklist ]_vars

LandedQueueBuys(w, m) ==
  {i \in DOMAIN txs : /\ txs[i].w = w /\ txs[i].m = m /\ txs[i].side = "buy"
                      /\ txs[i].path = "queue" /\ txs[i].st = "landed"}

\* C3: for every (wallet, mint) at most one buy transaction sent by the
\* automated path lands on chain.
C3_AtMostOneAutomatedBuyLands ==
  \A w \in Wallets, m \in Mints : Cardinality(LandedQueueBuys(w, m)) <= 1

\* C4: while the cooldown is active the trade queue is empty and the drain
\* loop is stopped: from the moment the cooldown starts, and after every push
\* made during it, nothing is left to execute.
C4_CooldownEmptiesQueue ==
  isInCooldown => tradeQueue = <<>> /\ drain.pc = "idle" /\ ~isProcessingQueue

\* C4 witness: the cooldown is active after the loop dropped two queued
\* intents at once.
C4_Witness ==
  isInCooldown /\ discarded >= 2 /\ tradeQueue = <<>>

\* The drain loop calls executeAutoTrade for a buy in this step.
BuyBegins == drain.pc = "attempt" /\ drain'.pc = "trade"

\* C5: no queue-driven buy begins while the cooldown is active.
C5_NoBuyBeginsInCooldown ==
  [][BuyBegins => ~isInCooldown /\ ~isInCooldown']_vars

\* C5 witness: during a cooldown, an evaluation that passed the cooldown check
\* earlier is about to resume and push its intent.
C5_Witness ==
  isInCooldown /\ \E t \in evals : t.pc = "enqueue" /\ canAutoSign(Head(t.ws))
                                   /\ t.mint \notin t.wt

\* C6: every successful buy of the drain loop starts one cooldown of the
\* fixed duration, and a cooldown starts in no other way.
C6_CooldownOncePerSuccessfulBuy ==
  [][ /\ drain.pc = "bl" =>
           /\ ~isInCooldown /\ isInCooldown'
           /\ cooldownEndTime' = now + COOLDOWN_DURATION
           /\ cooldownTimeout' = now + COOLDOWN_DURATION
      /\ (~isInCooldown /\ isInCooldown') => drain.pc = "bl" ]_vars

\* C7: while the cooldown is active no discovery poll is started and no
\* periodic scan timer is installed.
C7_NoPollNoTimerInCooldown ==
  [][ (isInCooldown /\ isInCooldown') =>
        /\ fetches' <= fetches
        /\ scanStarts' <= scanStarts
        /\ (scanInterval' => scanInterval) ]_vars

\* enable() is called on a paused scanner in this step.
EnableCalled == isPaused /\ ~isPaused'

\* C8: enable() during the cooldown only clears the paused flag: the cooldown
\* fields and its timer are unchanged, no scan is started, and scanning is not
\* active afterwards (no armed scan timer on an enabled scanner) before the
\* cooldown timer expires.
C8_EnableInCooldownOnlyClearsFlag ==
  [][ (EnableCalled /\ isInCooldown) =>
        /\ UNCHANGED <<isInCooldown, cooldownEndTime, cooldownTimeout>>
        /\ UNCHANGED <<scanInterval, scanStarts, fetches>>
        /\ ~scanInterval' ]_vars

\* The price step of task t on this reading has the outcome the reading calls
\* for: nothing without a market cap, the sell routine with reason target_hit
\* at or above the target, with reason stop_loss at or below the stop.
Judged(t, reading) ==
  LET p == positions[Head(t.ps)]
      cur == CurrentMcap(reading, p.m)
      w == Head(t.ws)
      sells(reason) == [t EXCEPT !.pc = "sell", !.cur = cur, !.reason = reason]
  IN
  /\ MonitorPrice(t, reading)
  /\ IF cur = 0 THEN UNCHANGED events /\ t \notin monitors'
     ELSE IF cur >= p.target
     THEN /\ events' = createAutoTradeEvent(events, w, "sell_attempt", p.m)
          /\ sells("target_hit") \in monitors'
     ELSE IF cur <= p.stop
     THEN /\ events' = createAutoTradeEvent(events, w, "stop_loss", p.m)
          /\ sells("stop_loss") \in monitors'
     ELSE UNCHANGED events /\ t \notin monitors'

\* A cycle begins and covers the enabled wallets that have active positions,
\* starting with every active position of the first of them.
CycleCoversActive ==
  /\ MonitorStart
  /\ \A w \in Wallets :
       (/\ w \in Range(enabledWallets) /\ tradingSettings[w].autoTradeEnabled
        /\ ActiveOf(positions, w) # {})
       => \E t \in monitors' :
            /\ t.id = cycles + 1 /\ w \in Range(t.ws)
            /\ Head(t.ws) = w => Range(t.ps) = ActiveOf(positions, w) /\ t.pc = "balance"

\* Some step of the cycle of task t
MonitorTask(t) ==
  \/ \E rpcOk \in BOOLEAN : MonitorBalance(t, rpcOk)
  \/ MonitorZero(t)
  \/ \E reading \in McapReadings : MonitorPrice(t, reading)
  \/ MonitorSell(t)
  \/ \E rpcOk \in BOOLEAN : MonitorSellBalance(t, rpcOk)
  \/ \E sent \in BOOLEAN : MonitorSellSubmit(t, sent)
  \/ \E confirmed \in BOOLEAN : MonitorSellConfirm(t, confirmed)
  \/ MonitorSold(t)
  \/ MonitorAfter(t)

\* C9: the cooldown does not affect monitoring: while isInCooldown is true a
\* cycle can begin and covers every active position of the enabled wallets,
\* every cycle in progress can take its next step, and a price reading leads
\* to the target-hit or stop-loss sell it calls for.
C9_CooldownLeavesMonitoring ==
  isInCooldown =>
    /\ cycles < MaxCycles => ENABLED CycleCoversActive
    /\ \A t \in monitors :
         /\ ENABLED MonitorTask(t)
         /\ t.pc = "price" => \A reading \in McapReadings : ENABLED Judged(t, reading)

\* C9 witness: a cycle begun during the cooldown has decided a stop-loss sell
\* and submitted its transaction while the cooldown is still active.
C9_Witness ==
  /\ isInCooldown
  /\ \E t \in monitors : t.inCooldown /\ t.pc = "sellconfirm" /\ t.reason = "stop_loss"

\* C10: a position bought in multiplier mode has targetMarketCap =
\* entryMarketCap * sellTargetMultiplier, and a reading at or above the target,
\* equality included, logs sell_attempt and runs the sell routine with reason
\* target_hit.
C10_MultiplierTargetInclusive ==
  /\ \A i \in DOMAIN positions :
       positions[i].mult # 0 => positions[i].target = positions[i].entry * positions[i].mult
  /\ \A t \in monitors :
       (t.pc = "price" /\ positions[Head(t.ps)].mult # 0)
       => \A reading \in McapReadings :
            CurrentMcap(reading, positions[Head(t.ps)].m)
               >= positions[Head(t.ps)].entry * positions[Head(t.ps)].mult
            => ENABLED (/\ Judged(t, reading)
                        /\ \E u \in monitors' : u.id = t.id /\ u.pc = "sell"
                                                /\ u.reason = "target_hit")

\* C10 witness: entry 20,000 with multiplier 3 gave target 60,000, and a
\* reading of exactly 60,000 logged sell_attempt and started the sell routine
\* with reason target_hit.
C10_Witness ==
  \E t \in monitors :
    LET p == positions[Head(t.ps)] IN
    /\ p.entry = 20000 /\ p.mult = 3 /\ p.target = 60000
    /\ t.pc = "sell" /\ t.cur = 60000 /\ t.reason = "target_hit"
    /\ BagCount(events, <<Head(t.ws), "sell_attempt", p.m>>) >= 1

\* The stop-loss market cap of a queued intent is its entry market cap times
\* (1 - autoSellStopLossPercent / 100), in hundredths.
IntentStopExact(intent) ==
  intent.stopLossMcap * 100
    = intent.entryMcap * (100 - intent.settings.autoSellStopLossPercent)

\* C11: stopLossMarketCap = entryMarketCap * (1 - autoSellStopLossPercent/100)
\* for every intent and for the position created from it, and a reading at or
\* below the stop, equality included, and below the target logs stop_loss and
\* runs the sell routine with reason stop_loss.
C11_StopLossInclusive ==
  /\ \A i \in DOMAIN tradeQueue : IntentStopExact(tradeQueue[i])
  /\ drain.pc # "idle" => IntentStopExact(drain.trade)
  /\ drain.pc \in {"pos", "evt", "bl"} =>
       /\ positions[Len(positions)].entry = drain.trade.entryMcap
       /\ positions[Len(positions)].stop = drain.trade.stopLossMcap
  /\ \A t \in monitors :
       t.pc = "price" =>
         \A reading \in McapReadings :
           LET p == positions[Head(t.ps)]
               cur == CurrentMcap(reading, p.m)
           IN (cur # 0 /\ cur <= p.stop /\ cur < p.target)
              => ENABLED (/\ Judged(t, reading)
                          /\ events' = createAutoTradeEvent(events, Head(t.ws),
                                                            "stop_loss", p.m)
                          /\ \E u \in monitors' : u.id = t.id /\ u.pc = "sell"
                                                  /\ u.reason = "stop_loss")

\* C11 witness: entry 20,000 with stop-loss 50 percent gave stop 10,000, and a
\* reading of exactly 10,000 logged stop_loss and started the sell routine
\* with reason stop_loss.
C11_Witness ==
  \E t \in monitors :
    LET p == positions[Head(t.ps)] IN
    /\ p.entry = 20000 /\ p.stop = 10000
    /\ t.pc = "sell" /\ t.cur = 10000 /\ t.reason = "stop_loss"
    /\ BagCount(events, <<Head(t.ws), "stop_loss", p.m>>) >= 1

\* Task t takes its price step on this reading and no source gives a market cap.
NoPriceStep(t, reading) ==
  /\ t.pc = "price"
  /\ CurrentMcap(reading, positions[Head(t.ps)].m) = 0
  /\ MonitorPrice(t, reading)

\* C12: a price step in which neither the live reading nor the stored token
\* record gives a market cap above 0 leaves every position record, the event
\* log, the transactions and the holdings as they were and starts no sell, in
\* every cycle it is repeated in.
C12_NoPriceLeavesPosition ==
  [][ \A t \in monitors : \A reading \in McapReadings :
        NoPriceStep(t, reading) =>
          /\ UNCHANGED <<positions, events, txs, holdings, tokenCache>>
          /\ \A u \in monitors' : u.id = t.id => u.pc = "balance" ]_vars

\* C12 witness: in its second cycle the monitor has passed the first position
\* of the wallet again; the store has no market cap for its mint, and it is
\* still active with no sell_attempt and no stop_loss logged for it.
C12_Witness ==
  \E t \in monitors :
    /\ t.id = 2 /\ Head(t.ps) = 2
    /\ positions[1].w = Head(t.ws) /\ positions[1].status = "active"
    /\ tokens[positions[1].m] = 0
    /\ positions[1].m # positions[2].m
    /\ BagCount(events, <<Head(t.ws), "sell_attempt", positions[1].m>>) = 0
    /\ BagCount(events, <<Head(t.ws), "stop_loss", positions[1].m>>) = 0

\* The balance the monitor reads for the position at the head of task t
BalanceRead(t, rpcOk) == getTokenBalance(Head(t.ws), positions[Head(t.ps)].m, rpcOk)

\* C13: a balance of zero read for a position sets it to sold and nothing
\* else: no transaction is submitted, one event is appended, and the cycle
\* moves on without a price step for it; a positive balance leaves the
\* position as it is and leads to the price step.
C13_ZeroBalanceClosesWithoutSell ==
  [][ \A t \in monitors :
        /\ \A rpcOk \in BOOLEAN :
             MonitorBalance(t, rpcOk) =>
               IF BalanceRead(t, rpcOk) <= 0
               THEN /\ positions' = [positions EXCEPT ![Head(t.ps)].status = "sold"]
                    /\ UNCHANGED <<txs, events>>
                    /\ [t EXCEPT !.pc = "zero"] \in monitors'
               ELSE /\ UNCHANGED <<positions, txs, events>>
                    /\ [t EXCEPT !.pc = "price"] \in monitors'
        /\ MonitorZero(t) =>
             /\ BagSize(events') = BagSize(events) + 1
             /\ UNCHANGED <<positions, txs>>
             /\ [t EXCEPT !.pc = "after"] \in monitors'
        /\ t.pc \in {"zero", "after"} =>
             \A u \in monitors' :
               (u.id = t.id /\ u.ps = t.ps) => u.pc \in {"zero", "after"} ]_vars

\* C13 witness: a position was closed on a zero balance: it is sold with no
\* sell signature, no sell transaction exists, and sell_success was logged once.
C13_Witness ==
  \E t \in monitors :
    LET p == positions[Head(t.ps)] IN
    /\ t.pc = "after"
    /\ p.status = "sold" /\ p.sellSig = 0
    /\ \A i \in DOMAIN txs : txs[i].side # "sell"
    /\ BagCount(events, <<Head(t.ws), "sell_success", p.m>>) = 1

\* The submission t as it is after the step
After(t) == CHOOSE u \in submits' : u.id = t.id

\* C14: when a relay answered "already processed" and the lookup of the
\* extracted signature finds it on chain without execution error, the
\* submission has that signature at once, with no further relay request,
\* direct broadcast or final lookup then or later, and it is the signature
\* the call returns.
C14_AlreadyProcessedReturnsSignature ==
  [][ \A t \in submits :
        /\ \A rpcOk \in BOOLEAN :
             (RelayVerify(t, rpcOk) /\ checkTransactionOnChain(sigStatus[t.id], rpcOk))
             => /\ After(t).signed /\ After(t).stage = "verified"
                /\ After(t).pc = "blockhash"
                /\ After(t).tried = t.tried
                /\ After(t).directs = 0 /\ After(t).finals = 0
        /\ (t.stage = "verified" /\ ~SubmitReturns(t))
             => /\ After(t).signed /\ After(t).stage = "verified"
                /\ After(t).tried = t.tried
                /\ After(t).directs = 0 /\ After(t).finals = 0
        /\ (t.stage = "verified" /\ SubmitReturns(t))
             => results'[Len(results')].txSignature = t.id ]_vars

\* C14 witness: the third relay asked answered "already processed" and the
\* lookup found the signature; the submission has it after three requests.
C14_Witness ==
  \E t \in submits : t.stage = "verified" /\ t.signed /\ Len(t.tried) = 3

\* The relay requests of two passes over the endpoint list, in order
RelayOrder(i) == <<(i - 1) \div Cardinality(JITO_ENDPOINTS),
                   ((i - 1) % Cardinality(JITO_ENDPOINTS)) + 1>>

AllRelaysTried(t) == Len(t.tried) = maxRetries * Cardinality(JITO_ENDPOINTS)

\* No relay accepted the transaction of t.
NoRelayAccepted(t) ==
  t.mev /\ t.pc \notin {"landed", "fallback"} /\ t.stage \notin {"relay", "fallback"}

\* The stages of a protected submission in which every relay attempt fails
C15_Stages ==
  \A t \in submits :
    /\ Len(t.tried) <= maxRetries * Cardinality(JITO_ENDPOINTS)
    /\ \A i \in DOMAIN t.tried : t.tried[i] = RelayOrder(i)
    /\ NoRelayAccepted(t) =>
         /\ t.directs <= 1 /\ t.finals <= 1
         /\ (t.pc = "direct" \/ t.directs = 1) => AllRelaysTried(t)
         /\ (t.pc = "final" \/ t.finals = 1) => t.directs = 1 /\ t.extracted
         /\ t.pc \in {"blockhash", "poll", "return"} =>
              /\ t.signed <=> t.stage \in {"verified", "direct", "final"}
              /\ ~t.signed <=>
                   /\ AllRelaysTried(t)
                   /\ t.directs = 1
                   /\ t.stage = "-"
                   /\ t.extracted => t.finals = 1

InSubmission(t) == t.pc \in {"post", "verify", "landed", "fallback", "direct", "final"}

\* C15: the relays are asked in list order for two passes, at most 12
\* requests; the direct broadcast comes only after all of them failed, the
\* lookup of the own signature only after the broadcast failed; the
\* submission is without signature exactly when all of that failed; and the
\* submission always comes to an end.
C15_FallbackOrderAndTermination ==
  /\ []C15_Stages
  /\ (\E t \in submits : InSubmission(t)) ~> (\A t \in submits : ~InSubmission(t))

\* C15 witness: twelve relay requests failed, the direct broadcast failed,
\* the lookup of the own signature failed, and the submission has no signature.
C15_Witness ==
  \E t \in submits :
    /\ t.pc = "return" /\ ~t.signed /\ t.mev
    /\ Len(t.tried) = 12 /\ t.directs = 1 /\ t.finals = 1

InConfirmation(t) == t.pc \in {"blockhash", "poll"}

\* What confirmTransaction may have returned for the status it saw
C16_Returned ==
  \A t \in submits :
    (t.pc = "return" /\ t.signed) =>
      /\ t.confirmed => t.saw.level \in {"confirmed", "finalized"} /\ ~t.saw.err
      /\ t.saw.err => ~t.confirmed

\* How confirmTransaction reacts to the status it is given
C16_Reacts ==
  \A t \in submits :
    /\ \A delay \in PollDelays :
         (ConfirmPoll(t, TRUE, delay) /\ sigStatus[t.id].err)
         => After(t).pc = "return" /\ ~After(t).confirmed /\ After(t).elapsed = t.elapsed
    /\ \A rpcOk \in BOOLEAN :
         ConfirmTimeout(t, rpcOk)
         => /\ After(t).pc = "return"
            /\ After(t).confirmed <=>
                 /\ rpcOk /\ sigStatus[t.id].level \in {"confirmed", "finalized"}
                 /\ ~sigStatus[t.id].err

\* C16: confirm returns true only after it saw confirmed or finalized without
\* execution error; it returns false in the round that sees an execution
\* error, without waiting on; at the end of the window it returns false
\* unless the last status is confirmed or finalized without error; and it
\* always returns.
C16_ConfirmOutcome ==
  /\ []C16_Returned
  /\ [][C16_Reacts]_vars
  /\ (\E t \in submits : InConfirmation(t)) ~> (\A t \in submits : ~InConfirmation(t))

\* C16 witness: confirm returned false before the window ended, on a status
\* that was processed with an execution error.
C16_Witness ==
  \E t \in submits :
    /\ t.pc = "return" /\ t.signed /\ ~t.confirmed
    /\ t.saw.level = "processed" /\ t.saw.err /\ t.elapsed < timeout

\* C18: when a pending order is updated to confirmed with a signature,
\* getOrder returns the order under the same id with status confirmed, that
\* signature and the other fields as created; and an order that is no longer
\* pending is never read as pending again.
C18_OrderRoundTrip ==
  [][ \A id \in DOMAIN orders :
        /\ (orders[id].status = "pending" /\ orders'[id].status = "confirmed")
           => \E t \in submits :
                /\ t.orderId = id /\ t.signed
                /\ id \in DOMAIN orders'
                /\ getOrder(orders', id) =
                     [status |-> "confirmed", txSignature |-> t.id, w |-> orders[id].w]
        /\ orders[id].status # "pending"
           => id \in DOMAIN orders' /\ getOrder(orders', id).status # "pending" ]_vars

\* C18 witness: an order reads as confirmed with the signature of the
\* submission that was made against it.
C18_Witness ==
  \E id \in DOMAIN orders :
    /\ getOrder(orders, id).status = "confirmed"
    /\ getOrder(orders, id).txSignature = 1
    /\ \E i \in DOMAIN results : results[i].orderId = id /\ results[i].success

\* C19: an order that is confirmed or failed keeps its status and its
\* signature in every later step, a pending order becomes confirmed or failed
\* only, and no order is removed.
C19_OrderStatusTerminal ==
  [][ /\ DOMAIN orders \subseteq DOMAIN orders'
      /\ \A id \in DOMAIN orders :
           /\ orders[id].status \in {"confirmed", "failed"}
              => /\ orders'[id].status = orders[id].status
                 /\ orders'[id].txSignature = orders[id].txSignature
           /\ orders[id].status = "pending"
              => orders'[id].status \in {"pending", "confirmed", "failed"} ]_vars

Ceil(n, b) == (n + b - 1) \div b

RECURSIVE Flatten(_)
Flatten(ss) == IF ss = <<>> THEN <<>> ELSE Head(ss) \o Flatten(Tail(ss))

\* The batches of a liquidation in progress: their number, their sizes, and
\* every item of the list in exactly one of them, in order
BatchesFormed(L) ==
  LET n == Len(L.list)
      b == L.batchSize
      K == Len(L.batches)
  IN
  /\ K = Ceil(n, b)
  /\ \A k \in 1..(K - 1) : Len(L.batches[k]) = b
  /\ Len(L.batches[K]) = n - b * (K - 1)
  /\ Len(L.batches[K]) \in 1..b
  /\ Flatten(L.batches) = L.list

\* C17: a batch liquidation of n items with batch size b >= 1 forms
\* ceil(n/b) batches, all of size b except possibly the last; no item is
\* attempted twice; and when it returns every item was attempted once,
\* sold + failed = total = n and the result list has n entries, whatever the
\* outcome of each sell.
C17_BatchLiquidationCounts ==
  LET L == liquidation
      n == Len(L.list)
  IN
  /\ L.pc \in {"run", "delay", "final", "done"} /\ n > 0 => BatchesFormed(L)
  /\ \A i \in DOMAIN L.attempts : L.attempts[i] <= 1
  /\ L.pc \in {"final", "done"} =>
       /\ \A i \in Range(L.list) : L.attempts[i] = 1
       /\ L.total = n
       /\ L.sold + L.failed = L.total
       /\ Len(L.results) = n
       /\ \A i \in Range(L.list) :
            Cardinality({j \in DOMAIN L.results : L.results[j].item = i}) = 1

\* C17 witness: 7 items in batches of 3 were liquidated in batches of 3, 3
\* and 1, with a sold item, a failure result and a thrown exception among them.
C17_Witness ==
  /\ liquidation.pc = "done"
  /\ liquidation.batchSize = 3
  /\ Len(liquidation.list) = 7
  /\ [k \in DOMAIN liquidation.batches |-> Len(liquidation.batches[k])] = <<3, 3, 1>>
  /\ liquidation.sold = 2 /\ liquidation.failed = 5
  /\ \E j \in DOMAIN liquidation.results : liquidation.results[j].error = "thrown"
  /\ \E j \in DOMAIN liquidation.results : liquidation.results[j].error = "failure"

\* C20: a position that is sold, stopped or failed keeps its status and its
\* sell signature in every later step.
C20_PositionStatusTerminal ==
  [][ \A i \in DOMAIN positions :
        positions[i].status # "active"
        => /\ i \in DOMAIN positions'
           /\ positions'[i].status = positions[i].status
           /\ positions'[i].sellSig = positions[i].sellSig ]_vars

\* An evaluation of an auto-signing wallet reaches the push: it passed the
\* holdings check and marks its key in this step.
EnqueueStep(t) ==
  /\ t \in evals
  /\ t.pc = "enqueue"
  /\ t.mint \notin t.wt
  /\ canAutoSign(Head(t.ws))
  /\ evals' = EvalNext(t)
  /\ BagCount(dedupTimers', <<Head(t.ws), t.mint>>) =
       BagCount(dedupTimers, <<Head(t.ws), t.mint>>) + 1

\* C21: the trade queue never holds two intents of one (mint, wallet);
\* enqueueing a pair that is queued already leaves the queue unchanged and
\* logs no event; any other intent is appended at the tail (and, when no
\* drain loop is running, taken from the head at once by the loop that
\* starts, or dropped with the queue when the cooldown has begun).
C21_QueueHoldsPairOnce ==
  /\ [](\A i, j \in DOMAIN tradeQueue :
          tradeQueue[i].mint = tradeQueue[j].mint /\ tradeQueue[i].w = tradeQueue[j].w
          => i = j)
  /\ [][ \A t \in evals : EnqueueStep(t) =>
           LET w == Head(t.ws)
               pushed == Append(tradeQueue, NewIntent(t, w))
           IN
           IF \E i \in DOMAIN tradeQueue :
                 tradeQueue[i].mint = t.mint /\ tradeQueue[i].w = w
           THEN tradeQueue' = tradeQueue /\ events' = events /\ drain' = drain
           ELSE \/ isProcessingQueue /\ tradeQueue' = pushed /\ drain' = drain
                \/ /\ ~isProcessingQueue /\ ~isInCooldown
                   /\ tradeQueue' = Tail(pushed)
                   /\ drain'.trade = Head(pushed)
                \/ /\ ~isProcessingQueue /\ isInCooldown
                   /\ tradeQueue' = <<>>
                   /\ discarded' = Len(pushed) ]_vars

\* C21 witness: while the loop works on m1, m2 was pushed by two evaluations
\* (two dedup timers for its key) and is in the queue once; nothing was
\* attempted or dropped yet.
C21_Witness ==
  /\ BagCount(dedupTimers, <<TradingWallet, "m2">>) = 2
  /\ Len(tradeQueue) = 1
  /\ tradeQueue[1].mint = "m2"
  /\ drain.pc = "limit"
  /\ drain.trade.mint = "m1"
  /\ events = <<>>
  /\ discarded = 0

\* Events of one type in the log
EventsOfType(type) ==
  BagSize([e \in {x \in DOMAIN events : x[2] = type} |-> events[e]])

\* Buys begun by the drain loop and not resolved yet
QueueBuysInFlight ==
  EventsOfType("buy_attempt") - EventsOfType("buy_success")
    - EventsOfType("buy_failed") - EventsOfType("error")

\* The drain loop takes an intent in this step
TakesIntent ==
  /\ drain'.pc = "limit"
  /\ drain' # drain

\* C22: at most one drain loop is active and at most one queue-driven buy is
\* in flight, however many notifications call processTradeQueue while the
\* loop runs; intents leave the queue in the order they were pushed; and an
\* intent is taken only when no loop was running or the loop has finished
\* with the previous intent (skipped, failed or succeeded through to the
\* cooldown call).
C22_OneDrainLoopInOrder ==
  /\ [](/\ isProcessingQueue <=> drain.pc # "idle"
        /\ QueueBuysInFlight \in {0, 1}
        /\ QueueBuysInFlight = 1 <=> drain.pc \in {"attempt", "trade", "confirm", "pos"})
  /\ [][ \/ tradeQueue' = tradeQueue
         \/ tradeQueue' = <<>>
         \/ /\ tradeQueue # <<>>
            /\ tradeQueue' = Tail(tradeQueue)
            /\ drain'.trade = Head(tradeQueue)
         \/ \E t \in evals : tradeQueue' = Append(tradeQueue, NewIntent(t, Head(t.ws))) ]_vars
  /\ [][ TakesIntent => drain.pc \in {"idle", "limit", "has", "failed", "bl"} ]_vars
  /\ [][ \A t \in evals : EnqueueStep(t) /\ isProcessingQueue =>
           drain' = drain /\ isProcessingQueue' ]_vars

\* C22 witness: a buy is awaiting its confirmation while another intent,
\* pushed during the loop, waits in the queue, and an earlier buy of the loop
\* has failed.
C22_Witness ==
  /\ drain.pc = "confirm"
  /\ Len(tradeQueue) = 1
  /\ EventsOfType("buy_failed") = 1
  /\ EventsOfType("buy_attempt") = 2

\* C23: two consecutive buy executions started by the drain loop are
\* separated by at least MIN_TRADE_INTERVAL: when the loop begins a buy after
\* an earlier one, the clock reads at least MIN_TRADE_INTERVAL more than
\* lastTradeTime, the reading taken when the earlier buy began, whether that
\* buy failed or succeeded.
C23_BuysSeparatedByMinInterval ==
  [][ /\ drain.pc = "attempt"
      /\ drain'.pc = "trade"
      /\ EventsOfType("buy_attempt") >= 2
      => now - lastTradeTime >= MIN_TRADE_INTERVAL ]_vars

\* C24: executeTrade returns the aggregator's transaction (venue 'jupiter')
\* when the quote and the swap build succeed; when the quote or the build
\* fails it requests the bonding-curve venue exactly once and returns that
\* transaction (venue 'pumpfun') if the request succeeds; when that fails too
\* it returns an error with the order failed, and no venue is asked again.
C24_VenueResolution ==
  \A i \in DOMAIN trades :
    LET t == trades[i] IN
    /\ t.pumpfunRequests <= 1
    /\ t.pc = "done" =>
         /\ t.quote = "ok" /\ t.swap = "ok" =>
              /\ t.result.success /\ t.result.venue = "jupiter"
              /\ t.pumpfunRequests = 0
              /\ orders[t.orderId].status = "pending"
         /\ t.quote = "null" \/ t.swap = "null" =>
              /\ t.pumpfunRequests = 1
              /\ t.pumpfun = "ok" =>
                   /\ t.result.success /\ t.result.venue = "pumpfun"
                   /\ orders[t.orderId].status = "pending"
              /\ t.pumpfun = "null" =>
                   /\ ~t.result.success /\ t.result.error # "none"
                   /\ t.result.venue = "none"
                   /\ orders[t.orderId].status = "failed"

\* C24 witness: three calls have returned: one through the aggregator, one
\* through the bonding curve after the swap build failed, and one with an
\* error after the quote and the bonding curve both failed.
C24_Witness ==
  /\ Len(trades) = 3
  /\ \A i \in DOMAIN trades : trades[i].pc = "done"
  /\ \E i \in DOMAIN trades : trades[i].result.venue = "jupiter"
  /\ \E i \in DOMAIN trades :
        trades[i].swap = "null" /\ trades[i].result.venue = "pumpfun"
  /\ \E i \in DOMAIN trades :
        /\ trades[i].quote = "null" /\ trades[i].pumpfun = "null"
        /\ orders[trades[i].orderId].status = "failed"

\* The automatic sell of task t fails in this step: the trade could not be
\* sent, or its confirmation came back false.
AutoSellFails(t) ==
  \/ MonitorSellSubmit(t, FALSE)
  \/ MonitorSellConfirm(t, FALSE)

\* C25: when an automatic sell fails, an error event is appended for its
\* wallet and mint and every position record stays as it was, the position
\* still active; every later cycle covers the position again, and a reading
\* that meets the target or the stop loss starts the sell again, whatever
\* failed before.
C25_FailedAutoSellIsRetried ==
  /\ [][ \A t \in monitors : AutoSellFails(t) =>
           LET w == Head(t.ws)
               p == positions[Head(t.ps)]
           IN
           /\ events' = BagAdd(events, <<w, "error", p.m>>)
           /\ positions' = positions
           /\ p.status = "active" => positions'[Head(t.ps)].status = "active" ]_vars
  /\ [][ MonitorStart => CycleCoversActive ]_vars
  /\ [][ \A t \in monitors : \A reading \in McapReadings :
           LET w == Head(t.ws)
               p == positions[Head(t.ps)]
               cur == CurrentMcap(reading, p.m)
           IN
           /\ MonitorPrice(t, reading)
           /\ BagCount(events, <<w, "error", p.m>>) > 0
           /\ cur # 0 /\ (cur >= p.target \/ cur <= p.stop)
           => \E u \in monitors' :
                /\ u.id = t.id /\ u.pc = "sell" /\ Head(u.ps) = Head(t.ps)
                /\ u.reason = IF cur >= p.target THEN "target_hit" ELSE "stop_loss" ]_vars

\* C25 witness: the second cycle's sell of a position has failed like the
\* first cycle's: two error events for the pair, the position still active.
C25_Witness ==
  \E t \in monitors :
    LET p == positions[Head(t.ps)] IN
    /\ t.id = 2 /\ t.pc = "after" /\ t.reason # "-"
    /\ p.status = "active"
    /\ BagCount(events, <<Head(t.ws), "error", p.m>>) = 2

\* C26: disabling the scanner discards every intent still in the trade
\* queue (so that none of them is executed afterwards): the step in which the
\* scanner becomes paused leaves the queue empty.
C26_DisableDiscardsQueue ==
  [][ ~isPaused /\ isPaused' => tradeQueue' = <<>> ]_vars

\* C27: with protection on, once a relay has accepted the transaction no
\* relay is asked again; when the lookup after the settle interval does not
\* find the transaction landed, the next step is one direct broadcast, and
\* confirmation then runs on the signature returned: the direct one when the
\* broadcast gave one, the relay's otherwise.  That signature is the one
\* written to the order.
C27_AcceptedThenOneDirectBroadcast ==
  /\ [][ \A t \in submits : \A u \in submits' :
           t.pc \in {"landed", "fallback"} /\ u.id = t.id /\ u # t =>
             /\ u.tried = t.tried
             /\ u.pc \notin {"post", "verify", "direct", "final"}
             /\ t.pc = "landed" =>
                  /\ u.directs = t.directs
                  /\ \/ u = [t EXCEPT !.pc = "fallback"]
                     \/ /\ u = Signed(t, "relay")
                        /\ checkTransactionOnChain(sigStatus[t.id], TRUE)
             /\ t.pc = "fallback" =>
                  /\ u.directs = t.directs + 1
                  /\ u.pc = "blockhash" /\ u.signed
                  /\ u.stage \in {"fallback", "relay"} ]_vars
  /\ [](\A t \in submits :
          /\ t.stage = "fallback" => t.directs = 1
          /\ t.stage = "relay" => t.directs <= 1
          /\ t.stage \in {"fallback", "relay"} /\ t.pc = "return" =>
               orders[t.orderId].txSignature = t.id)

\* C27 witness: a relay accepted the transaction, it had not landed after
\* the settle interval, the direct broadcast returned a signature, and that
\* signature was confirmed.
C27_Witness ==
  \E t \in submits :
    /\ t.pc = "return" /\ t.stage = "fallback" /\ t.confirmed
    /\ t.directs = 1
    /\ orders[t.orderId].status = "confirmed"

\* The sells of the liquidation that have started and not resolved
SellsInFlight(L) == {i \in DOMAIN L.cur : L.cur[i] = "pending"}

\* C28: in a batch liquidation the batches run one after another: the sells
\* in flight all belong to the current batch and are at most batchSize;
\* batch k+1 is started only from the delay that follows batch k, when every
\* sell of batch k has resolved; the delay is taken after every batch but
\* the last, after which the liquidation finishes without one.
C28_BatchesRunInSequence ==
  /\ [](LET L == liquidation IN
        /\ Cardinality(SellsInFlight(L)) <= L.batchSize
        /\ SellsInFlight(L) # {} =>
             L.pc = "run" /\ SellsInFlight(L) \subseteq Range(L.batches[L.batchIndex])
        /\ L.pc = "delay" => L.batchIndex < Len(L.batches)
        /\ L.pc \in {"final", "done"} /\ L.list # <<>> => L.batchIndex = Len(L.batches))
  /\ [][ LET L == liquidation
             M == liquidation'
         IN
         /\ M.batchIndex # L.batchIndex =>
              /\ L.pc \in {"split", "delay"}
              /\ M.batchIndex = L.batchIndex + 1
              /\ SellsInFlight(L) = {}
              /\ M.pc = "run"
              /\ L.pc = "delay" => Len(M.results) = L.batchIndex * L.batchSize
         /\ L.pc = "run" /\ M.pc # "run" =>
              /\ SellsInFlight(L) = {}
              /\ M.pc = IF L.batchIndex < Len(L.batches) THEN "delay" ELSE "final" ]_vars

\* C28 witness: the second batch of three sells is in flight, all three
\* unresolved, after the three results of the first batch were counted.
C28_Witness ==
  /\ liquidation.pc = "run"
  /\ liquidation.batchIndex = 2
  /\ liquidation.batchSize = 3
  /\ Cardinality(SellsInFlight(liquidation)) = 3
  /\ Len(liquidation.results) = 3

\* C29: an intent taken from the queue is bought only if the wallet then has
\* fewer active positions than its maxConcurrentPositions (and none for the
\* mint), so that a position created by the drain loop never takes the
\* wallet's active positions above the ceiling of its settings.
C29_DrainBuysKeepCeiling ==
  [][ \A i \in DOMAIN positions' \ DOMAIN positions :
        positions'[i].via = "queue" =>
          Cardinality(ActiveOf(positions', positions'[i].w))
            <= tradingSettings[positions'[i].w].maxConcurrentPositions ]_vars

\* C30: an evaluation that has passed every check marks its key and sets the
\* timer of the dedup window in the step of the push or of the pending
\* trade, whatever that step does with the intent; while the key is marked a
\* notification for it returns from its checks and changes neither the
\* queue, the pending trades nor the event log; a marked key always has a
\* timer pending, and only a timer removes it.
C30_DedupWindow ==
  /\ [][ \A t \in evals : EvalEnqueue(t) /\ t.mint \notin t.wt =>
           /\ <<Head(t.ws), t.mint>> \in processedTokens'
           /\ BagCount(dedupTimers', <<Head(t.ws), t.mint>>) =
                BagCount(dedupTimers, <<Head(t.ws), t.mint>>) + 1 ]_vars
  /\ [][ \A t \in evals :
           /\ t.pc = "check"
           /\ <<Head(t.ws), t.mint>> \in processedTokens
           /\ EvalChecks(t)
           => /\ evals' = EvalNext(t)
              /\ UNCHANGED <<tradeQueue, pendingTrades, events, processedTokens,
                             dedupTimers, drain>> ]_vars
  /\ [](\A key \in processedTokens : BagCount(dedupTimers, key) >= 1)
  /\ [][ \A key \in processedTokens \ processedTokens' :
           BagCount(dedupTimers', key) = BagCount(dedupTimers, key) - 1 ]_vars

\* C30 witness: the pair was marked, its timer removed the key, the pair was
\* evaluated and bought again and is marked once more, and a further
\* notification for it stands before its checks.
C30_Witness ==
  \E t \in evals :
    /\ t.pc = "check"
    /\ <<Head(t.ws), t.mint>> \in processedTokens
    /\ BagCount(dedupTimers, <<Head(t.ws), t.mint>>) = 1
    /\ BagCount(events, <<Head(t.ws), "buy_attempt", t.mint>>) = 2

\* An evaluation reaches the holdings lookup and the cache cannot serve it.
HoldingsLookup(t) ==
  /\ EvalChecks(t)
  /\ EvalPasses(t, Head(t.ws))
  /\ ~(tokenCache[Head(t.ws)].present /\ tokenCache[Head(t.ws)].fresh)

\* The evaluations waiting for the holdings of wallet w
WaitingFor(w) == {t \in evals : t.pc = "fetch" /\ Head(t.ws) = w}

SubmissionGoesOn(t) ==
  /\ t \in submits
  /\ \E u \in submits' : u.id = t.id /\ u # t

\* C32: when submitSignedTrade returns for a confirmed transaction and the
\* wallet of the order is known, the holdings cache entry of that wallet is
\* removed in the step that returns the result, and the entries of the other
\* wallets stay as they are; when the transaction is not confirmed (it was
\* not sent, it failed on chain, the confirmation timed out or its requests
\* failed) the cache stays as it is.  No earlier step of the submission
\* changes the cache.
C32_ConfirmedSubmitDropsCache ==
  [][ \A t \in submits :
        /\ SubmitReturns(t) =>
             /\ Len(results') = Len(results) + 1
             /\ results'[Len(results')].success = t.confirmed
             /\ IF t.confirmed /\ t.orderId \in DOMAIN orders
                THEN /\ ~tokenCache'[orders[t.orderId].w].present
                     /\ \A w \in Wallets \ {orders[t.orderId].w} :
                          tokenCache'[w] = tokenCache[w]
                ELSE tokenCache' = tokenCache
        /\ SubmissionGoesOn(t) => tokenCache' = tokenCache ]_vars

\* C32 witness: a confirmed submission for an order of the trading wallet has
\* returned; the trading wallet's cache entry, which a fetch still in flight
\* was started with, is gone, and the other wallet's entry is in place.
C32_Witness ==
  /\ results # <<>> /\ results[1].success
  /\ orders[1].w = TradingWallet
  /\ inFlightRequests[TradingWallet].active
  /\ inFlightRequests[TradingWallet].stale.present
  /\ ~tokenCache[TradingWallet].present
  /\ tokenCache["uw"].present

\* C33: a confirmed automatic sell leaves the position sold, with the
\* signature of the sell transaction and the realized P&L written to it, and
\* the sell_success event that follows is the only one logged for the sell.
C33_AutoSellRecordsOutcome ==
  [][ \A t \in monitors :
        /\ MonitorSellConfirm(t, TRUE) =>
             /\ positions'[Head(t.ps)].status = "sold"
             /\ positions'[Head(t.ps)].sellSig = t.sig
             /\ positions'[Head(t.ps)].pnl # "unset"
             /\ events' = events
        /\ MonitorSold(t) =>
             /\ BagSize(events') = BagSize(events) + 1
             /\ BagCount(events', <<Head(t.ws), "sell_success", positions[Head(t.ps)].m>>)
                  = BagCount(events, <<Head(t.ws), "sell_success", positions[Head(t.ps)].m>>) + 1
             /\ positions' = positions ]_vars

\* An event for the pair is appended by the step.
LogsFor(w, m) ==
  \E e \in DOMAIN events' :
    e[1] = w /\ e[3] = m /\ BagCount(events', e) > BagCount(events, e)

\* The buy of the drain loop ends in failure: executeAutoTrade returns
\* without success (no route, not sent, failed on chain, not confirmed in
\* time, or an error caught on the way).
BuyEndsInFailure ==
  /\ drain.pc \in {"trade", "confirm"}
  /\ drain'.pc \notin {"trade", "confirm", "pos"}

\* The sell of a monitoring cycle ends in failure.
SellEndsInFailure(t) ==
  /\ t \in monitors /\ t.pc \in {"selltrade", "sellconfirm"}
  /\ \E u \in monitors' :
       u.id = t.id /\ u.pc \notin {"selltrade", "sellconfirm", "sold"}

C35_BalanceErrorKeepsPosition ==
  [][ \A t \in monitors :
        /\ MonitorBalance(t, FALSE)
        /\ <<Head(t.ws), positions[Head(t.ps)].m>> \in holdings
        => /\ positions' = positions
           /\ \E u \in monitors' : u.id = t.id /\ u.pc = "price" ]_vars

\* The intent of mint m is waiting in the trade queue.
Queued(m) == \E i \in DOMAIN tradeQueue : tradeQueue[i].mint = m

\* C36: no intent is stranded in the trade queue.  Whenever the queue is not
\* empty a drain loop is running and marked as running; an intent that waits
\* in the queue eventually leaves it (taken by the loop or dropped with the
\* queue); a running loop eventually ends and is then marked inactive; and an
\* intent enqueued while no loop is marked running starts one that takes it,
\* unless the cooldown drops it.
C36_NoIntentStranded ==
  /\ [](tradeQueue # <<>> => isProcessingQueue /\ drain.pc # "idle")
  /\ \A m \in Mints : Queued(m) ~> ~Queued(m)
  /\ (drain.pc # "idle") ~> (drain.pc = "idle" /\ ~isProcessingQueue)
  /\ [][ \A t \in evals :
           /\ EnqueueStep(t)
           /\ drain.pc = "idle"
           /\ ~isInCooldown
           => /\ isProcessingQueue'
              /\ drain'.pc = "limit"
              /\ drain'.trade.mint = t.mint
              /\ tradeQueue' = <<>> ]_vars

\* C36 witness: two buys were attempted and failed, nothing was dropped, the
\* queue is empty and the loop has ended and is marked inactive.
C36_Witness ==
  /\ EventsOfType("buy_failed") = 2
  /\ discarded = 0
  /\ tradeQueue = <<>>
  /\ drain.pc = "idle"
  /\ ~isProcessingQueue
  /\ evals = {}

\* A buy of the pair has created its position and has not written the
\* blacklist entry yet.
BuyHandling(w, m) ==
  \/ drain.pc \in {"pos", "evt"} /\ drain.trade.w = w /\ drain.trade.mint = m
  \/ \E t \in manuals : t.pc \in {"pos", "evt"} /\ t.w = w /\ t.m = m

C38_EveryCooldownEnds ==
  /\ [](isInCooldown <=> cooldownTimeout # Undef)
  /\ [](isInCooldown <=> cooldownEndTime # 0)
  /\ [][ isPaused' # isPaused =>
           /\ cooldownTimeout' = cooldownTimeout
           /\ isInCooldown' = isInCooldown
           /\ cooldownEndTime' = cooldownEndTime ]_vars
  /\ [][ isInCooldown /\ ~isInCooldown' =>
           /\ now >= cooldownTimeout
           /\ cooldownTimeout' = Undef
           /\ cooldownEndTime' = 0
           /\ isPaused' = isPaused
           /\ scanInterval' = scanInterval
           /\ scanStarts' = IF isPaused THEN scanStarts ELSE scanStarts + 1 ]_vars
  /\ isInCooldown ~> ~isInCooldown

\* C38 witness: the scanner was disabled during a cooldown, the timer has
\* fired all the same, and the scan was not restarted.
C38_Witness ==
  /\ now >= COOLDOWN_DURATION
  /\ ~isInCooldown
  /\ cooldownTimeout = Undef
  /\ isPaused
  /\ scanStarts = 0 /\ ~scanInterval

\* C39: after the holdings cache of a wallet was invalidated it never holds
\* what was read from the chain before the invalidation.  A confirmed buy of
\* the drain loop invalidates the wallet's cache in the step that creates the
\* position, the transaction having landed before; in a scenario without
\* sells the wallet holds the token from then on, so every cache entry read
\* after the invalidation lists the mint of every position of the wallet.
C39_NoPreInvalidationHoldings ==
  \A w \in Wallets :
    tokenCache[w].present =>
      \A i \in DOMAIN positions :
        positions[i].w = w /\ positions[i].via = "queue"
        => positions[i].m \in tokenCache[w].tokens

\* The monitoring cycles whose automatic sell of position pid is with
\* executeAutoTrade
MonitorSells(pid) ==
  {t \in monitors :
     t.pc \in {"selltrade", "sellconfirm"} /\ Head(t.ps) = pid}

\* The executeInstantSell calls (of the route, of a sell-all or of a batch
\* liquidation) whose sell of position pid is with executeAutoTrade
InstantSells(pid) ==
  {t \in exits : t.op = "instantSell" /\ t.pid = pid /\ t.pc \in {"trade", "confirm"}}

\* C40: at most one sell execution is in flight for a position at any time,
\* whether it was begun by a monitoring cycle or by executeInstantSell.
C40_OneSellPerPosition ==
  \A pid \in DOMAIN positions :
    Cardinality(MonitorSells(pid)) + Cardinality(InstantSells(pid)) <= 1
====
